---- MODULE Spec2Model ----
(***************************************************************************)
(* A model of the dedi-gateway engine: the route cache and the broker (in  *)
(* both drivers), the connection manager with its inbound WebSocket / SSE  *)
(* handlers, and the admission protocol.                                   *)
(*                                                                         *)
(* One node (the local gateway) is modelled; its peers, the operator and   *)
(* the network are the environment, whose inputs the actions draw with \E. *)
(* A handler is cut into actions at its suspension points (real I/O).      *)
(***************************************************************************)
EXTENDS Integers, Sequences, FiniteSets, TLC

(***************************************************************************)
(* Bounds of the model                                                     *)
(***************************************************************************)
\* how many _establish_connection tasks the model lets run at a time
MaxTasks == 2
\* how many messages the broker exercise publishes or adds in one run
MaxMsgs == 3
\* the largest expected_count a response generator is started with
MaxCount == 2

(***************************************************************************)
(* Values                                                                  *)
(***************************************************************************)
\* Python's None where a record (a Route, a dict) is expected
None == [none |-> TRUE]

\* node ids of the peers known to the local node
Nodes == {"a", "b"}
\* network ids
Networks == {"n1"}

\* etc/enums.py: the members of an enumeration and their wire values
ConnectivityType == [DIRECT |-> "direct", PROXY |-> "proxy", OFFLINE |-> "offline"]
TransportType == [SSE |-> "sse", WEBSOCKET |-> "websocket"]

\* Enum(value): the member whose wire value is `value`
ConnectivityType_of(value) ==
    CHOOSE m \in DOMAIN ConnectivityType : ConnectivityType[m] = value
TransportType_of(value) ==
    CHOOSE m \in DOMAIN TransportType : TransportType[m] = value

(***************************************************************************)
(* model/route.py                                                          *)
(***************************************************************************)
\* Route.__init__: outbound defaults to False, proxy_nodes to []
Route(network_id, node_id, connectivity_type, transport_type, outbound, proxy_nodes) ==
    [network_id |-> network_id, node_id |-> node_id,
     connectivity_type |-> connectivity_type, transport_type |-> transport_type,
     outbound |-> outbound, proxy_nodes |-> proxy_nodes]

Route_to_dict(route) ==
    [networkId |-> route.network_id, nodeId |-> route.node_id,
     connectivityType |-> ConnectivityType[route.connectivity_type],
     transportType |-> TransportType[route.transport_type],
     outbound |-> route.outbound, proxyNodes |-> route.proxy_nodes]

Route_from_dict(payload) ==
    Route(payload.networkId, payload.nodeId,
          ConnectivityType_of(payload.connectivityType),
          TransportType_of(payload.transportType),
          payload.outbound, payload.proxyNodes)

\* the routes the cache operations are exercised with
ProxyChains == {<<>>, <<"b">>}
Routes ==
    {Route(n, p, c, t, o, ch) :
        n \in Networks, p \in Nodes, c \in {"DIRECT", "PROXY"},
        t \in {"WEBSOCKET", "SSE"}, o \in BOOLEAN, ch \in ProxyChains}

(***************************************************************************)
(* json.dumps / json.loads: a document and its serialisation are different *)
(* values; loads undoes dumps.                                             *)
(***************************************************************************)
json_dumps(doc) == [json |-> doc]
json_loads(text) == text.json

VARIABLES
    cache_driver,        \* the driver class in use behind Cache / MessageBroker
    MemoryCache_routes,  \* MemoryCache._routes: node id -> route dict
    redis_route,         \* the Redis string keys: route:<node id>, challenge:<nonce>
    cache_ret,           \* the last cache operation called and what it returned
    MemoryMessageBroker_messages,   \* _messages: node id -> AsyncQueue._queue
    MemoryMessageBroker_responses,  \* _responses: message id -> AsyncQueue._queue
    redis_message,       \* the Redis lists message:node:<node id>
    redis_response,      \* the Redis lists message:response:<message id>
    gen,                 \* the running response_generator: its arguments and locals
    gen_yielded,         \* what the generator has yielded so far, in order
    published,           \* history: node id -> the messages published to it
    delivered,           \* history: node id -> what get_message returned for it
    resp_added,          \* history: message id -> the responses add_to_response got
    next_serial,         \* the serial number of the next message of the exercise
    broker_ret,          \* the last broker operation called and what it returned
    db_networks,         \* the networks collection: network id -> network dict
    db_nodes,            \* the nodes collection: node id -> node dict
    est,                 \* node id -> how many _establish_connection tasks wait where
    conn_ret,            \* the last connection step taken and how it ended
    db_receivedRequests, \* the receivedRequests collection: message id -> record
    db_sentRequests,     \* the sentRequests collection: message id -> record
    kms_network_node_keys,        \* MemoryKms._network_node_keys
    kms_network_management_keys,  \* MemoryKms._network_management_keys
    kms_driver,          \* SERVICE_CONFIG.kms_driver: the KMS class in use
    MemoryCache_challenges,  \* MemoryCache._challenges: nonce -> challenge
    now,                 \* the clock: time.time(), in seconds (in ticks where said)
    uuid_next,           \* how many uuid4() / token_hex values were drawn, plus one
    inflight,            \* the calls waiting for an HTTP answer or in a response generator
    adm_ret              \* the last admission handler run and how it answered

cacheVars == <<cache_driver, MemoryCache_routes, redis_route, cache_ret>>
queueVars == <<MemoryMessageBroker_messages, MemoryMessageBroker_responses,
               redis_message, redis_response>>
brokerVars == <<queueVars, gen, gen_yielded, published, delivered, resp_added,
                next_serial, broker_ret>>
dbVars == <<db_networks, db_nodes>>
connVars == <<est, conn_ret>>
msgVars == <<db_receivedRequests, db_sentRequests>>
kmsVars == <<kms_network_node_keys, kms_network_management_keys, kms_driver>>
admVars == <<msgVars, kmsVars, MemoryCache_challenges, now, uuid_next, inflight,
             adm_ret>>

\* what the steps of one component leave alone
outsideCache == <<brokerVars, dbVars, connVars, admVars>>
outsideBroker == <<cacheVars, dbVars, connVars, admVars>>

(***************************************************************************)
(* cache/memory/cache.py: the route operations of MemoryCache              *)
(***************************************************************************)
\* MemoryCache._routes[route.node_id] = route.to_dict()
MemoryCache_save_route(routes, route) ==
    (route.node_id :> Route_to_dict(route)) @@ routes

\* _routes.get(node_id); Route.from_dict of it, or None
MemoryCache_get_route(routes, node_id) ==
    IF node_id \in DOMAIN routes THEN Route_from_dict(routes[node_id]) ELSE None

\* a delete that clears the whole dict (a variant the C3 check must reject)
MemoryCache_delete_route_all(routes, node_id) ==
    IF node_id \in DOMAIN routes THEN << >> ELSE routes

\* del _routes[node_id] when present
MemoryCache_delete_route(routes, node_id) ==
    [k \in DOMAIN routes \ {node_id} |-> routes[k]]

\* delete_route's return value: True iff node_id was a key
MemoryCache_delete_route_ret(routes, node_id) == node_id \in DOMAIN routes

(***************************************************************************)
(* cache/redis_driver/cache.py: the route operations of RedisCache         *)
(***************************************************************************)
\* db.set('route:<node id>', json.dumps(route.to_dict()))
RedisCache_save_route(db, route) ==
    (<<"route", route.node_id>> :> json_dumps(Route_to_dict(route))) @@ db

\* db.get('route:<node id>'); Route.from_dict(json.loads(..)), or None
RedisCache_get_route(db, node_id) ==
    IF <<"route", node_id>> \in DOMAIN db
    THEN Route_from_dict(json_loads(db[<<"route", node_id>>]))
    ELSE None

\* db.delete('route:<node id>')
RedisCache_delete_route(db, node_id) ==
    [k \in DOMAIN db \ {<<"route", node_id>>} |-> db[k]]

\* result > 0: the number of keys DEL removed
RedisCache_delete_route_ret(db, node_id) ==
    (IF <<"route", node_id>> \in DOMAIN db THEN 1 ELSE 0) > 0

(***************************************************************************)
(* cache/cache.py: the Cache interface, answered by the driver in use      *)
(***************************************************************************)
get_route(node_id) ==
    IF cache_driver = "memory"
    THEN MemoryCache_get_route(MemoryCache_routes, node_id)
    ELSE RedisCache_get_route(redis_route, node_id)

save_route(route) ==
    IF cache_driver = "memory"
    THEN /\ MemoryCache_routes' = MemoryCache_save_route(MemoryCache_routes, route)
         /\ UNCHANGED redis_route
    ELSE /\ redis_route' = RedisCache_save_route(redis_route, route)
         /\ UNCHANGED MemoryCache_routes

delete_route(node_id) ==
    IF cache_driver = "memory"
    THEN /\ MemoryCache_routes' = MemoryCache_delete_route(MemoryCache_routes, node_id)
         /\ UNCHANGED redis_route
    ELSE /\ redis_route' = RedisCache_delete_route(redis_route, node_id)
         /\ UNCHANGED MemoryCache_routes

delete_route_ret(node_id) ==
    IF cache_driver = "memory"
    THEN MemoryCache_delete_route_ret(MemoryCache_routes, node_id)
    ELSE RedisCache_delete_route_ret(redis_route, node_id)

(***************************************************************************)
(* cache/message_broker.py                                                 *)
(***************************************************************************)
\* MessageBroker.DRIVER_TIMEOUT, in seconds
DRIVER_TIMEOUT == 60

\* message ids the response queues are keyed by
MessageIds == {"m1", "m2"}

\* the envelope send_message publishes for a peer's send loop
Envelope(serial) == [message |-> [serial |-> serial], signature |-> "sig"]

\* a response as process_network_message passes it to add_to_response
\* (NetworkMessage.to_dict: the message id is under 'metadata')
Response(message_id, serial) ==
    [messageType |-> "custom.response",
     metadata |-> [messageId |-> message_id],
     messageData |-> serial]

\* dict.get(key): the queue under key, or the empty sequence when there is none
QueueOf(store, key) == IF key \in DOMAIN store THEN store[key] ELSE << >>

(***************************************************************************)
(* cache/memory/message_broker.py                                          *)
(***************************************************************************)
\* AsyncQueue.put: self._queue.append(item)
AsyncQueue_put(queue, item) == Append(queue, item)

\* AsyncQueue.pop_by_index(0) on a non-empty queue: self._queue.pop(0)
AsyncQueue_pop(queue) == [item |-> Head(queue), rest |-> Tail(queue)]

\* publish_message: the node's queue, created when missing, gets the message
MemoryMessageBroker_publish_message(messages, node_id, message) ==
    (node_id :> AsyncQueue_put(QueueOf(messages, node_id), message)) @@ messages

\* add_to_response: the queue keyed by message['metadata']['messageId']
MemoryMessageBroker_add_to_response(responses, message) ==
    (message.metadata.messageId :>
        AsyncQueue_put(QueueOf(responses, message.metadata.messageId), message))
    @@ responses

(***************************************************************************)
(* cache/redis_driver/message_broker.py                                    *)
(***************************************************************************)
\* LPUSH key value: the value becomes the head of the list
Redis_lpush(db, key, value) == (key :> (<<value>> \o QueueOf(db, key))) @@ db

\* BLPOP key on a non-empty list: the head leaves; an emptied list is no key
Redis_lpop(db, key) ==
    IF Len(db[key]) = 1
    THEN [k \in DOMAIN db \ {key} |-> db[k]]
    ELSE (key :> Tail(db[key])) @@ db

\* publish_message: db.lpush('message:node:<node id>', json.dumps(message))
RedisMessageBroker_publish_message(db, node_id, message) ==
    Redis_lpush(db, <<"message:node", node_id>>, json_dumps(message))

\* add_to_response reads message["messageId"]: a KeyError when the dict has
\* no such top-level key
RedisMessageBroker_add_to_response_raises(message) ==
    "messageId" \notin DOMAIN message

RedisMessageBroker_add_to_response(db, message) ==
    IF RedisMessageBroker_add_to_response_raises(message)
    THEN db
    ELSE Redis_lpush(db, <<"message:response", message.messageId>>, json_dumps(message))

(***************************************************************************)
(* cache/message_broker.py: the MessageBroker interface, answered by the   *)
(* driver in use; a queue is read head first, as the next get_message or   *)
(* generator poll sees it                                                  *)
(***************************************************************************)
MessageQueue(node_id) ==
    IF cache_driver = "memory"
    THEN QueueOf(MemoryMessageBroker_messages, node_id)
    ELSE [i \in 1..Len(QueueOf(redis_message, <<"message:node", node_id>>)) |->
            json_loads(redis_message[<<"message:node", node_id>>][i])]

ResponseQueue(message_id) ==
    IF cache_driver = "memory"
    THEN QueueOf(MemoryMessageBroker_responses, message_id)
    ELSE [i \in 1..Len(QueueOf(redis_response, <<"message:response", message_id>>)) |->
            json_loads(redis_response[<<"message:response", message_id>>][i])]

publish_message(node_id, message) ==
    IF cache_driver = "memory"
    THEN /\ MemoryMessageBroker_messages' =
                MemoryMessageBroker_publish_message(MemoryMessageBroker_messages,
                                                    node_id, message)
         /\ UNCHANGED redis_message
    ELSE /\ redis_message' =
                RedisMessageBroker_publish_message(redis_message, node_id, message)
         /\ UNCHANGED MemoryMessageBroker_messages

\* get_message on a non-empty queue: queue.pop_by_index(0) / BLPOP
take_message(node_id) ==
    IF cache_driver = "memory"
    THEN /\ MemoryMessageBroker_messages' =
                (node_id :> AsyncQueue_pop(MemoryMessageBroker_messages[node_id]).rest)
                @@ MemoryMessageBroker_messages
         /\ UNCHANGED redis_message
    ELSE /\ redis_message' = Redis_lpop(redis_message, <<"message:node", node_id>>)
         /\ UNCHANGED MemoryMessageBroker_messages

add_to_response(message) ==
    IF cache_driver = "memory"
    THEN /\ MemoryMessageBroker_responses' =
                MemoryMessageBroker_add_to_response(MemoryMessageBroker_responses, message)
         /\ UNCHANGED redis_response
    ELSE /\ redis_response' = RedisMessageBroker_add_to_response(redis_response, message)
         /\ UNCHANGED MemoryMessageBroker_responses

add_to_response_raises(message) ==
    cache_driver = "redis" /\ RedisMessageBroker_add_to_response_raises(message)

\* the generator's poll on a non-empty response queue
take_response(message_id) ==
    IF cache_driver = "memory"
    THEN /\ MemoryMessageBroker_responses' =
                (message_id :> AsyncQueue_pop(MemoryMessageBroker_responses[message_id]).rest)
                @@ MemoryMessageBroker_responses
         /\ UNCHANGED redis_response
    ELSE /\ redis_response' = Redis_lpop(redis_response, <<"message:response", message_id>>)
         /\ UNCHANGED MemoryMessageBroker_responses

(***************************************************************************)
(* response_generator(message_id, message_count), cut at its waits.        *)
(* memory: one step per asyncio.sleep(0.5): time_counter += 1, the queue   *)
(* is looked up again while it was None, the loop condition is tested and   *)
(* the queue polled.  redis: one step per BLPOP return (a value, or nothing *)
(* at the timeout).                                                        *)
(***************************************************************************)
GenIdle == [state |-> "idle"]

\* the loop condition of the memory generator
MemoryGen_continues(message_counter, message_count, time_counter) ==
    message_counter < message_count /\ time_counter < DRIVER_TIMEOUT * 2

GenState(state, message_id, message_count, message_counter, time_counter, seen) ==
    [state |-> state, message_id |-> message_id, message_count |-> message_count,
     message_counter |-> message_counter, time_counter |-> time_counter,
     seen |-> seen]

\* what one wake-up of the generator does, given its counters on waking;
\* `seen` is history: how many responses had been given for message_id when
\* the generator last looked at the queue
GenPoll(message_id, message_count, message_counter, time_counter, timed_out, seen) ==
    IF cache_driver = "memory"
    THEN IF MemoryGen_continues(message_counter, message_count, time_counter)
         THEN IF ResponseQueue(message_id) # << >>
              THEN /\ take_response(message_id)
                   /\ gen_yielded' = Append(gen_yielded, Head(ResponseQueue(message_id)))
                   /\ gen' = GenState("running", message_id, message_count,
                                      message_counter + 1, 0,
                                      Len(resp_added[message_id]))
              ELSE /\ gen' = GenState("running", message_id, message_count,
                                      message_counter, time_counter,
                                      Len(resp_added[message_id]))
                   /\ UNCHANGED <<gen_yielded, MemoryMessageBroker_responses, redis_response>>
         ELSE /\ gen' = GenState(IF message_counter < message_count
                                 THEN "raised" ELSE "done",
                                 message_id, message_count, message_counter,
                                 time_counter, seen)
              /\ UNCHANGED <<gen_yielded, MemoryMessageBroker_responses, redis_response>>
    ELSE IF message_counter < message_count
         THEN IF ResponseQueue(message_id) # << >>
              THEN /\ take_response(message_id)
                   /\ gen_yielded' = Append(gen_yielded, Head(ResponseQueue(message_id)))
                   /\ gen' = GenState("running", message_id, message_count,
                                      message_counter + 1, 0,
                                      Len(resp_added[message_id]))
              ELSE \* BLPOP blocks; it returns nothing once DRIVER_TIMEOUT has passed
                   /\ gen' = GenState(IF timed_out THEN "raised" ELSE "running",
                                      message_id, message_count, message_counter,
                                      time_counter, Len(resp_added[message_id]))
                   /\ UNCHANGED <<gen_yielded, MemoryMessageBroker_responses, redis_response>>
         ELSE /\ gen' = GenState("done", message_id, message_count, message_counter,
                                 time_counter, seen)
              /\ UNCHANGED <<gen_yielded, MemoryMessageBroker_responses, redis_response>>

(***************************************************************************)
(* model/node.py, model/network.py                                         *)
(***************************************************************************)
\* Python's None where a string (a key, an id) is expected
NoneStr == "None"

Node(node_id, url, public_key, approved) ==
    [node_id |-> node_id, url |-> url, public_key |-> public_key,
     approved |-> approved]

\* Node.to_dict(key): 'publicKey' is part of the payload only when key is set
\* and there is a public key
Node_to_dict(node, key) ==
    IF node.public_key # NoneStr /\ key
    THEN [nodeId |-> node.node_id, nodeUrl |-> node.url,
          approved |-> node.approved, publicKey |-> node.public_key]
    ELSE [nodeId |-> node.node_id, nodeUrl |-> node.url,
          approved |-> node.approved]

\* Node.from_dict: public_key = payload.get('publicKey', None)
Node_from_dict(payload) ==
    Node(payload.nodeId, payload.nodeUrl,
         IF "publicKey" \in DOMAIN payload THEN payload.publicKey ELSE NoneStr,
         payload.approved)

Network(network_id, network_name, description, node_ids, visible, registered, instance_id, central_node) ==
    [network_id |-> network_id, network_name |-> network_name,
     description |-> description, node_ids |-> node_ids, visible |-> visible,
     registered |-> registered, instance_id |-> instance_id,
     central_node |-> central_node]

Network_to_dict(network) ==
    [networkId |-> network.network_id, networkName |-> network.network_name,
     description |-> network.description, nodeIds |-> network.node_ids,
     visible |-> network.visible, registered |-> network.registered,
     instanceId |-> network.instance_id, centralNode |-> network.central_node]

Network_from_dict(payload) ==
    Network(payload.networkId, payload.networkName, payload.description,
            payload.nodeIds, payload.visible, payload.registered,
            payload.instanceId, payload.centralNode)

(***************************************************************************)
(* database/memory/node.py, database/memory/network.py                     *)
(***************************************************************************)
\* MemoryNodeRepository.save: self.db[node.node_id] = node.to_dict()
MemoryNodeRepository_save(nodes, node) ==
    (node.node_id :> Node_to_dict(node, FALSE)) @@ nodes

\* MemoryNodeRepository.batch_get: the nodes of node_ids that are stored
RECURSIVE MemoryNodeRepository_batch_get(_, _)
MemoryNodeRepository_batch_get(nodes, node_ids) ==
    IF node_ids = << >> THEN << >>
    ELSE (IF Head(node_ids) \in DOMAIN nodes
          THEN <<Node_from_dict(nodes[Head(node_ids)])>> ELSE << >>)
         \o MemoryNodeRepository_batch_get(nodes, Tail(node_ids))

\* NetworkRepository.get_nodes of a stored network
get_nodes(network_id) ==
    MemoryNodeRepository_batch_get(db_nodes, db_networks[network_id].nodeIds)

\* the nodes of the network with the approval flag left unread (a variant the
\* C16 check must reject)
ApprovedNodes_all(network_id) ==
    LET nodes == get_nodes(network_id)
    IN {nodes[i].node_id : i \in 1..Len(nodes)}

\* the approved nodes of a network, as broadcast_message and
\* establish_all_connections select them
ApprovedNodes(network_id) ==
    LET nodes == get_nodes(network_id)
    IN {nodes[i].node_id : i \in {j \in 1..Len(nodes) : nodes[j].approved}}

(***************************************************************************)
(* kms: Kms.sign_payload.  Only the Vault driver implements it; MemoryKms   *)
(* inherits the method of the base class.  Both drivers keep one node key  *)
(* and one management key per network: kms_network_node_keys and           *)
(* kms_network_management_keys hold them for either driver (the transit    *)
(* keys network-<id> and the KV secrets network/<id> of Vault).            *)
(***************************************************************************)
KmsDrivers == {"memory", "vault"}

\* what a call returned, or the exception it raised
Returned(value) == [value |-> value]
Raised(exception) == [raises |-> exception]

\* Kms.sign_payload, which MemoryKms does not override
MemoryKms_sign_payload(payload, network_id) == Raised("NotImplementedError")

\* HcvKms.sign_payload: the transit key network-<network_id> signs the payload
HcvKms_sign_payload(keys, payload, network_id) ==
    IF network_id \in DOMAIN keys
    THEN Returned([signed |-> payload, key |-> keys[network_id].publicKey])
    ELSE Raised("KmsKeyManagementException")

\* get_active_kms().sign_payload(payload, network_id) with these node keys
sign_payload_with(keys, payload, network_id) ==
    IF kms_driver = "memory"
    THEN MemoryKms_sign_payload(payload, network_id)
    ELSE HcvKms_sign_payload(keys, payload, network_id)

sign_payload(payload, network_id) ==
    sign_payload_with(kms_network_node_keys, payload, network_id)

\* exception_handler: the status code of an exception sign_payload raised
SignErrorCode(exception) ==
    IF exception = "KmsKeyManagementException" THEN 404 ELSE 500

\* the call raised
IsRaised(result) == "raises" \in DOMAIN result

(***************************************************************************)
(* authenticate_network_message: how the check of a message from           *)
(* sender_id, signed with the private half of signing_key, ends            *)
(***************************************************************************)
authenticate_network_message(network_id, sender_id, signing_key) ==
    IF network_id \notin DOMAIN db_networks THEN "NetworkNotFoundException"
    ELSE LET network_nodes == get_nodes(network_id)
             found == {i \in 1..Len(network_nodes) :
                            network_nodes[i].node_id = sender_id}
         IN IF found = {} THEN "NodeNotFoundException"
            ELSE LET node == network_nodes[CHOOSE i \in found : \A j \in found : i <= j]
                 IN IF ~node.approved THEN "NodeNotApprovedException"
                    \* public_pem.encode() of a node stored without its key
                    ELSE IF node.public_key = NoneStr THEN "AttributeError"
                    ELSE IF signing_key = node.public_key THEN "True"
                    ELSE "False"

(***************************************************************************)
(* model/network_interface/network_interface.py: the connection manager    *)
(***************************************************************************)
\* where an _establish_connection task can be waiting
EstPcs == {"probing", "ws_connecting", "ws_open", "ws_send_loop",
           "sse_connecting", "sse_open", "relay_waiting"}

NoTasks == [pc \in EstPcs |-> 0]

\* the tasks running for a node, and its transports that are open
RunningTasks(p) ==
    est[p]["probing"] + est[p]["ws_connecting"] + est[p]["ws_open"]
    + est[p]["ws_send_loop"] + est[p]["sse_connecting"] + est[p]["sse_open"]
    + est[p]["relay_waiting"]
LiveTransports(p) == est[p]["ws_open"] + est[p]["sse_open"]

RECURSIVE SumTasks(_)
SumTasks(peers) ==
    IF peers = {} THEN 0
    ELSE LET p == CHOOSE q \in peers : TRUE
         IN RunningTasks(p) + SumTasks(peers \ {p})
AllRunningTasks == SumTasks(Nodes)

\* one task of node p moves from one wait to the next, or ends
TaskMoves(p, from, to) ==
    est' = [est EXCEPT ![p] = [@ EXCEPT ![from] = @ - 1, ![to] = @ + 1]]
TaskStarts(p, at) ==
    est' = [est EXCEPT ![p] = [@ EXCEPT ![at] = @ + 1]]
TaskEnds(p, from) ==
    est' = [est EXCEPT ![p] = [@ EXCEPT ![from] = @ - 1]]

\* send_message(message, node) with every route handled as an SSE route
send_message_result_sse(route, signature, post_ok) ==
    IF route = None THEN "NodeNotConnectedException"
    ELSE IF IsRaised(signature) THEN signature.raises
    ELSE IF ~route.outbound THEN "published"
    ELSE IF post_ok THEN "posted" ELSE "NetworkRequestFailedException"

\* send_message(message, node): how the call for a node with this route ends
\* when sign_payload ends as `signature` says and the HTTP POST of the
\* outbound-SSE case ends as post_ok says
send_message_result(route, signature, post_ok) ==
    IF route = None THEN "NodeNotConnectedException"
    ELSE IF route.connectivity_type = "DIRECT"
         THEN IF IsRaised(signature) THEN signature.raises
              ELSE IF route.transport_type = "WEBSOCKET" THEN "published"
              ELSE IF ~route.outbound THEN "published"
              ELSE IF post_ok THEN "posted" ELSE "NetworkRequestFailedException"
         ELSE IF route.connectivity_type = "PROXY" THEN "NotImplementedError"
         ELSE "nothing"

\* the exceptions of send_message that broadcast_message catches and logs
BroadcastCaught == {"NodeNotConnectedException", "NetworkRequestFailedException"}

\* broadcast_message over the nodes it has still to visit: the nodes the
\* message was published and posted for, the nodes whose exception was
\* logged, and the exception that ended the loop (NoneStr when it ran through)
RECURSIVE broadcast_walk(_, _, _)
broadcast_walk(nodes, signature, post_ok) ==
    IF nodes = << >>
    THEN [published |-> {}, posted |-> {}, failed |-> {}, raised |-> NoneStr]
    ELSE LET node == Head(nodes)
             result == send_message_result(get_route(node.node_id), signature, post_ok)
             rest == broadcast_walk(Tail(nodes), signature, post_ok)
         IN IF ~node.approved THEN rest
            ELSE IF result = "published"
            THEN [rest EXCEPT !.published = @ \cup {node.node_id}]
            ELSE IF result \in {"posted", "nothing"}
            THEN [rest EXCEPT !.posted = @ \cup {node.node_id}]
            ELSE IF result \in BroadcastCaught
            THEN [rest EXCEPT !.failed = @ \cup {node.node_id}]
            ELSE [published |-> {}, posted |-> {}, failed |-> {}, raised |-> result]

\* broadcast_message(message) for a message of network_id
broadcast_message_result(network_id, post_ok) ==
    broadcast_walk(get_nodes(network_id), sign_payload("message", network_id), post_ok)

\* the queues after the message was published for every node of peers
PublishAll(messages, peers, message) ==
    [q \in DOMAIN messages \cup peers |->
        IF q \in peers THEN AsyncQueue_put(QueueOf(messages, q), message)
        ELSE messages[q]]

DbIdle ==
    /\ db_networks = << >>
    /\ db_nodes = << >>

\* conn_ret of a step whose effect shows in the state
NoRet == [op |-> "none"]

ConnIdle ==
    /\ est = [p \in Nodes |-> NoTasks]
    /\ conn_ret = NoRet

AdmIdle ==
    /\ db_receivedRequests = << >>
    /\ db_sentRequests = << >>
    /\ kms_network_node_keys = << >>
    /\ kms_network_management_keys = << >>
    /\ kms_driver = "vault"
    /\ MemoryCache_challenges = << >>
    /\ now = 0
    /\ uuid_next = 1
    /\ inflight = {}
    /\ adm_ret = NoRet

(***************************************************************************)
(* The broker on its own: producers, a consumer per key, one generator     *)
(***************************************************************************)
BrokerIdle ==
    /\ MemoryMessageBroker_messages = << >>
    /\ MemoryMessageBroker_responses = << >>
    /\ redis_message = << >>
    /\ redis_response = << >>
    /\ gen = GenIdle
    /\ gen_yielded = << >>
    /\ published = [n \in Nodes |-> << >>]
    /\ delivered = [n \in Nodes |-> << >>]
    /\ resp_added = [m \in MessageIds |-> << >>]
    /\ next_serial = 1
    /\ broker_ret = [op |-> "none"]

BrokerInit ==
    /\ cache_driver \in {"memory", "redis"}
    /\ MemoryCache_routes = << >>
    /\ redis_route = << >>
    /\ cache_ret = [op |-> "none"]
    /\ BrokerIdle
    /\ DbIdle
    /\ ConnIdle
    /\ AdmIdle

\* publish_message(node_id, message)
BrokerPublish(node_id) ==
    /\ next_serial <= MaxMsgs
    /\ publish_message(node_id, Envelope(next_serial))
    /\ published' = [published EXCEPT ![node_id] = Append(@, Envelope(next_serial))]
    /\ next_serial' = next_serial + 1
    /\ broker_ret' = [op |-> "publish_message", node_id |-> node_id]
    /\ UNCHANGED <<MemoryMessageBroker_responses, redis_response, gen, gen_yielded,
                   delivered, resp_added>>
    /\ UNCHANGED outsideBroker

\* get_message(node_id): the head of the node's queue, or None at the timeout
BrokerGet(node_id) ==
    /\ IF MessageQueue(node_id) # << >>
       THEN /\ take_message(node_id)
            /\ delivered' = [delivered EXCEPT ![node_id] =
                                Append(@, Head(MessageQueue(node_id)))]
            /\ broker_ret' = [op |-> "get_message", node_id |-> node_id,
                              ret |-> Head(MessageQueue(node_id))]
       ELSE /\ broker_ret' = [op |-> "get_message", node_id |-> node_id, ret |-> None]
            /\ UNCHANGED <<MemoryMessageBroker_messages, redis_message, delivered>>
    /\ UNCHANGED <<MemoryMessageBroker_responses, redis_response, gen, gen_yielded,
                   published, resp_added, next_serial>>
    /\ UNCHANGED outsideBroker

\* add_to_response(message)
BrokerAddResponse(message_id) ==
    /\ next_serial <= MaxMsgs
    /\ add_to_response(Response(message_id, next_serial))
    /\ resp_added' = [resp_added EXCEPT ![message_id] =
                        Append(@, Response(message_id, next_serial))]
    /\ next_serial' = next_serial + 1
    /\ broker_ret' = [op |-> "add_to_response", message_id |-> message_id,
                      raised |-> add_to_response_raises(Response(message_id, next_serial))]
    /\ UNCHANGED <<MemoryMessageBroker_messages, redis_message, gen, gen_yielded,
                   published, delivered>>
    /\ UNCHANGED outsideBroker

\* response_generator(message_id, message_count) is started and runs to its
\* first wait
BrokerGenStart(message_id, message_count) ==
    /\ gen.state = "idle"
    /\ GenPoll(message_id, message_count, 0, 0, FALSE, 0)
    /\ broker_ret' = [op |-> "response_generator", message_id |-> message_id]
    /\ UNCHANGED <<MemoryMessageBroker_messages, redis_message, published, delivered,
                   resp_added, next_serial>>
    /\ UNCHANGED outsideBroker

\* the generator wakes: after asyncio.sleep(0.5) (memory) or in BLPOP (redis)
BrokerGenWake ==
    /\ gen.state = "running"
    /\ GenPoll(gen.message_id, gen.message_count, gen.message_counter,
               IF cache_driver = "memory" THEN gen.time_counter + 1 ELSE gen.time_counter,
               TRUE, gen.seen)
    /\ broker_ret' = [op |-> "response_generator", message_id |-> gen.message_id]
    /\ UNCHANGED <<MemoryMessageBroker_messages, redis_message, published, delivered,
                   resp_added, next_serial>>
    /\ UNCHANGED outsideBroker

BrokerNext ==
    \/ \E node_id \in Nodes : BrokerPublish(node_id)
    \/ \E node_id \in Nodes : BrokerGet(node_id)
    \/ \E message_id \in MessageIds : BrokerAddResponse(message_id)
    \/ \E message_id \in MessageIds, message_count \in 0..MaxCount :
            BrokerGenStart(message_id, message_count)
    \/ BrokerGenWake

(***************************************************************************)
(* The route cache on its own: any sequence of save / get / delete calls   *)
(***************************************************************************)
CacheInit ==
    /\ cache_driver \in {"memory", "redis"}
    /\ MemoryCache_routes = << >>
    /\ redis_route = << >>
    /\ cache_ret = [op |-> "none"]
    /\ BrokerIdle
    /\ DbIdle
    /\ ConnIdle
    /\ AdmIdle

CacheSave(route) ==
    /\ save_route(route)
    /\ cache_ret' = [op |-> "save_route", route |-> route]
    /\ UNCHANGED <<cache_driver, outsideCache>>

CacheGet(node_id) ==
    /\ cache_ret' = [op |-> "get_route", node_id |-> node_id, ret |-> get_route(node_id)]
    /\ UNCHANGED <<cache_driver, MemoryCache_routes, redis_route, outsideCache>>

CacheDelete(node_id) ==
    /\ delete_route(node_id)
    /\ cache_ret' = [op |-> "delete_route", node_id |-> node_id,
                     ret |-> delete_route_ret(node_id)]
    /\ UNCHANGED <<cache_driver, outsideCache>>

CacheNext ==
    \/ \E route \in Routes : CacheSave(route)
    \/ \E node_id \in Nodes : CacheGet(node_id)
    \/ \E node_id \in Nodes : CacheDelete(node_id)

vars == <<cacheVars, brokerVars, dbVars, connVars, admVars>>

SpecCache == CacheInit /\ [][CacheNext]_vars

SpecBroker == BrokerInit /\ [][BrokerNext]_vars

(***************************************************************************)
(* The connection manager: establish_connection, the _establish_connection *)
(* tasks it starts, and the inbound /service/websocket and /service/event  *)
(* handlers.  The gateway runs on the memory cache and broker here.        *)
(***************************************************************************)
\* the network the peers of the exercise are members of
LocalNetwork == "n1"

\* a stored node of the network that is not approved
Unapproved == "c"

\* a sender that is no node of the network
Stranger == "x"

\* the key an AuthConnect of the exercise is signed with
SigningKeys == {"key_a"}

\* what the steps of the connection manager never touch
outsideConn ==
    <<cache_driver, redis_route, cache_ret, MemoryMessageBroker_responses,
      redis_response, gen, gen_yielded, published, delivered, resp_added,
      broker_ret, dbVars, admVars>>

\* the nodes as add_node stored them: Node.to_dict() of the approved node
StoredNode(node_id, approved) ==
    Node_to_dict(Node(node_id, "http://" \o node_id, "key_" \o node_id, approved),
                 FALSE)

ConnInit ==
    /\ cache_driver = "memory"
    /\ MemoryCache_routes = << >>
    /\ redis_route = << >>
    /\ cache_ret = [op |-> "none"]
    /\ BrokerIdle
    /\ ConnIdle
    /\ db_receivedRequests = << >>
    /\ db_sentRequests = << >>
    /\ kms_network_node_keys =
           (LocalNetwork :> [privateKey |-> "node_priv_" \o LocalNetwork,
                             publicKey |-> "node_pub_" \o LocalNetwork])
    /\ kms_network_management_keys = << >>
    /\ kms_driver = "vault"
    /\ MemoryCache_challenges = << >>
    /\ now = 0
    /\ uuid_next = 1
    /\ inflight = {}
    /\ adm_ret = NoRet
    /\ db_networks = (LocalNetwork :>
            Network_to_dict(Network(LocalNetwork, "net", "", <<"a", "b", Unapproved>>,
                                    TRUE, FALSE, "self", NoneStr)))
    /\ db_nodes = ("a" :> StoredNode("a", TRUE)) @@ ("b" :> StoredNode("b", TRUE))
                  @@ (Unapproved :> StoredNode(Unapproved, FALSE))

\* establish_connection(network_id, node): nothing when the cache has a route
\* for the node, a new _establish_connection task otherwise; the task runs up
\* to its connectivity probe
ConnEstablish(p) ==
    /\ p \in ApprovedNodes(LocalNetwork)
    /\ IF get_route(p) # None
       THEN /\ conn_ret' = [op |-> "establish_connection", node_id |-> p,
                            result |-> "skipped"]
            /\ UNCHANGED est
       ELSE /\ AllRunningTasks < MaxTasks
            /\ TaskStarts(p, "probing")
            /\ conn_ret' = NoRet
    /\ UNCHANGED <<MemoryCache_routes, MemoryMessageBroker_messages, redis_message,
                   next_serial, outsideConn>>

\* service_websocket: the first frame is an AuthConnect of sender, signed with
\* signing_key; the route is saved once the message is authenticated
InWsConnect(sender, signing_key) ==
    LET result == authenticate_network_message(LocalNetwork, sender, signing_key)
    IN /\ IF result = "True"
          THEN save_route(Route(LocalNetwork, sender, "DIRECT", "WEBSOCKET",
                                FALSE, << >>))
          ELSE UNCHANGED <<MemoryCache_routes, redis_route>>
       /\ conn_ret' = [op |-> "service_websocket", node_id |-> sender,
                       result |-> result]
       /\ UNCHANGED <<est, MemoryMessageBroker_messages, redis_message, next_serial,
                      cache_driver, cache_ret, MemoryMessageBroker_responses,
                      redis_response, gen, gen_yielded, published, delivered,
                      resp_added, broker_ret, dbVars, admVars>>

\* handle_sse: the body is an AuthConnect of sender, signed with signing_key
InSseConnect(sender, signing_key) ==
    LET result == authenticate_network_message(LocalNetwork, sender, signing_key)
    IN /\ IF result = "True"
          THEN save_route(Route(LocalNetwork, sender, "DIRECT", "SSE", FALSE, << >>))
          ELSE UNCHANGED <<MemoryCache_routes, redis_route>>
       /\ conn_ret' = [op |-> "handle_sse", node_id |-> sender, result |-> result]
       /\ UNCHANGED <<est, MemoryMessageBroker_messages, redis_message, next_serial,
                      cache_driver, cache_ret, MemoryMessageBroker_responses,
                      redis_response, gen, gen_yielded, published, delivered,
                      resp_added, broker_ret, dbVars, admVars>>

\* RouteInterface.request_route up to its wait for the responses: true when a
\* route appeared meanwhile; otherwise the RouteRequest is broadcast and, with
\* nobody to send it to, the answer is false (NetworkRequestFailedException 404)
RequestRoute(p, post_ok) ==
    IF get_route(p) # None
    THEN /\ TaskEnds(p, "probing")
         /\ conn_ret' = [op |-> "_establish_connection", node_id |-> p,
                         result |-> "request_route: True"]
         /\ UNCHANGED <<MemoryMessageBroker_messages, next_serial>>
    ELSE LET sent == broadcast_message_result(LocalNetwork, post_ok)
             sent_count == Cardinality(sent.published \cup sent.posted)
         IN IF sent.raised # NoneStr
            THEN /\ next_serial <= MaxMsgs
                 /\ MemoryMessageBroker_messages' =
                        PublishAll(MemoryMessageBroker_messages, sent.published,
                                   Envelope(next_serial))
                 /\ next_serial' = next_serial + 1
                 /\ TaskEnds(p, "probing")
                 /\ conn_ret' = [op |-> "_establish_connection", node_id |-> p,
                                 result |-> sent.raised]
            ELSE IF sent_count = 0
            THEN /\ TaskEnds(p, "probing")
                 /\ conn_ret' = [op |-> "_establish_connection", node_id |-> p,
                                 result |-> "NetworkRequestFailedException 404"]
                 /\ UNCHANGED <<MemoryMessageBroker_messages, next_serial>>
            ELSE /\ next_serial <= MaxMsgs
                 /\ MemoryMessageBroker_messages' =
                        PublishAll(MemoryMessageBroker_messages, sent.published,
                                   Envelope(next_serial))
                 /\ next_serial' = next_serial + 1
                 /\ TaskMoves(p, "probing", "relay_waiting")
                 /\ conn_ret' = NoRet

\* _establish_connection after check_node_connectivity answered: the WebSocket
\* route is saved and the WebSocket dialled, or the relay is asked for
EstProbed(p, reachable, post_ok) ==
    /\ est[p]["probing"] > 0
    /\ IF reachable
       THEN /\ save_route(Route(LocalNetwork, p, "DIRECT", "WEBSOCKET", TRUE, << >>))
            /\ TaskMoves(p, "probing", "ws_connecting")
            /\ conn_ret' = NoRet
            /\ UNCHANGED <<MemoryMessageBroker_messages, next_serial>>
       ELSE /\ RequestRoute(p, post_ok)
            /\ UNCHANGED <<MemoryCache_routes, redis_route>>
    /\ UNCHANGED <<redis_message, cache_driver, cache_ret,
                   MemoryMessageBroker_responses, redis_response, gen, gen_yielded,
                   published, delivered, resp_added, broker_ret, dbVars, admVars>>

\* response_generator(message_id, sent_count) of request_route: no handler
\* hands a RouteResponse to add_to_response, so the wait ends in
\* MessageBrokerTimeoutException, which ends the task
EstRelayTimeout(p) ==
    /\ est[p]["relay_waiting"] > 0
    /\ TaskEnds(p, "relay_waiting")
    /\ conn_ret' = [op |-> "_establish_connection", node_id |-> p,
                    result |-> "MessageBrokerTimeoutException"]
    /\ UNCHANGED <<MemoryCache_routes, MemoryMessageBroker_messages, redis_message,
                   next_serial, outsideConn>>

\* websockets.connect succeeded and the AuthConnect was sent
EstWsConnected(p) ==
    /\ est[p]["ws_connecting"] > 0
    /\ TaskMoves(p, "ws_connecting", "ws_open")
    /\ conn_ret' = NoRet
    /\ UNCHANGED <<MemoryCache_routes, MemoryMessageBroker_messages, redis_message,
                   next_serial, outsideConn>>

\* _websocket_handler raised: last_failure = time.time() ends the WebSocket
\* loop at once (now - last_failure > 60 is false), now - last_failure < 60
\* holds, the SSE route is saved and the event stream requested
WsFailure(p, from) ==
    /\ save_route(Route(LocalNetwork, p, "DIRECT", "SSE", TRUE, << >>))
    /\ TaskMoves(p, from, "sse_connecting")
    /\ conn_ret' = NoRet

\* the connect was refused, or the open WebSocket broke
EstWsFailed(p, from) ==
    /\ est[p][from] > 0
    /\ WsFailure(p, from)
    /\ UNCHANGED <<MemoryMessageBroker_messages, redis_message, next_serial,
                   cache_driver, cache_ret, MemoryMessageBroker_responses,
                   redis_response, gen, gen_yielded, published, delivered,
                   resp_added, broker_ret, dbVars, admVars>>

\* the peer closed the WebSocket normally: receive_loop ends, and gather
\* keeps waiting for send_loop
EstWsClosed(p) ==
    /\ est[p]["ws_open"] > 0
    /\ TaskMoves(p, "ws_open", "ws_send_loop")
    /\ conn_ret' = NoRet
    /\ UNCHANGED <<MemoryCache_routes, MemoryMessageBroker_messages, redis_message,
                   next_serial, outsideConn>>

\* send_loop of an open WebSocket: a message of the node's queue is sent
EstWsSend(p) ==
    /\ est[p]["ws_open"] > 0
    /\ MessageQueue(p) # << >>
    /\ take_message(p)
    /\ conn_ret' = NoRet
    /\ UNCHANGED <<est, MemoryCache_routes, next_serial, outsideConn>>

\* send_loop of a closed WebSocket: the message it takes cannot be sent,
\* websocket.send raises and the handler fails
EstWsSendClosed(p) ==
    /\ est[p]["ws_send_loop"] > 0
    /\ MessageQueue(p) # << >>
    /\ take_message(p)
    /\ WsFailure(p, "ws_send_loop")
    /\ UNCHANGED <<next_serial, cache_driver, cache_ret,
                   MemoryMessageBroker_responses, redis_response, gen, gen_yielded,
                   published, delivered, resp_added, broker_ret, dbVars, admVars>>

\* the POST /service/event answered with a stream
EstSseConnected(p) ==
    /\ est[p]["sse_connecting"] > 0
    /\ TaskMoves(p, "sse_connecting", "sse_open")
    /\ conn_ret' = NoRet
    /\ UNCHANGED <<MemoryCache_routes, MemoryMessageBroker_messages, redis_message,
                   next_serial, outsideConn>>

\* the stream ended without an exception: last_failure is still None and the
\* loop requests the stream again
EstSseEnded(p) ==
    /\ est[p]["sse_open"] > 0
    /\ TaskMoves(p, "sse_open", "sse_connecting")
    /\ conn_ret' = NoRet
    /\ UNCHANGED <<MemoryCache_routes, MemoryMessageBroker_messages, redis_message,
                   next_serial, outsideConn>>

\* the stream request or the stream raised: the loop ends, the route is
\* deleted and the task ends in NetworkRequestFailedException(500)
EstSseFailed(p, from) ==
    /\ est[p][from] > 0
    /\ delete_route(p)
    /\ TaskEnds(p, from)
    /\ conn_ret' = [op |-> "_establish_connection", node_id |-> p,
                    result |-> "NetworkRequestFailedException 500"]
    /\ UNCHANGED <<MemoryMessageBroker_messages, redis_message, next_serial,
                   cache_driver, cache_ret, MemoryMessageBroker_responses,
                   redis_response, gen, gen_yielded, published, delivered,
                   resp_added, broker_ret, dbVars, admVars>>

ConnNext ==
    \/ \E p \in Nodes : ConnEstablish(p)
    \/ \E sender \in {"a", Unapproved, Stranger}, signing_key \in SigningKeys :
            InWsConnect(sender, signing_key)
    \/ \E sender \in {"a", Unapproved, Stranger}, signing_key \in SigningKeys :
            InSseConnect(sender, signing_key)
    \/ \E p \in Nodes, reachable \in BOOLEAN, post_ok \in BOOLEAN :
            EstProbed(p, reachable, post_ok)
    \/ \E p \in Nodes : EstRelayTimeout(p)
    \/ \E p \in Nodes : EstWsConnected(p)
    \/ \E p \in Nodes, from \in {"ws_connecting", "ws_open"} : EstWsFailed(p, from)
    \/ \E p \in Nodes : EstWsClosed(p)
    \/ \E p \in Nodes : EstWsSend(p)
    \/ \E p \in Nodes : EstWsSendClosed(p)
    \/ \E p \in Nodes : EstSseConnected(p)
    \/ \E p \in Nodes : EstSseEnded(p)
    \/ \E p \in Nodes, from \in {"sse_connecting", "sse_open"} : EstSseFailed(p, from)

SpecConn == ConnInit /\ [][ConnNext]_vars

(***************************************************************************)
(* Admission: the proof-of-work challenge, the received and sent admission *)
(* records, and the join request / invite handshake.  The gateway runs on  *)
(* the memory database, the memory KMS and the memory cache here.          *)
(***************************************************************************)
\* how many steps the clock makes
MaxTicks == 2
\* how many challenges a run may ask for
MaxChallenges == 1
\* how many join requests and invites a run may send
MaxUuid == 2
\* how many calls may wait for the answer to their HTTP POST at a time
MaxInflight == 1
\* how many node keys a run may generate
MaxKeys == 3

\* etc/consts.py: SERVICE_CONFIG.challenge_difficulty
challenge_difficulty == 22
\* cache/memory/cache.py: the seconds a challenge stays valid
CHALLENGE_TTL == 300
\* the clock moves in steps of half that time
ClockStep == CHALLENGE_TTL \div 2

\* etc/enums.py
AuthMessageStatus ==
    [PENDING |-> "pending", ACCEPTED |-> "accepted", REJECTED |-> "rejected"]
MessageType ==
    [AUTH_REQUEST |-> "uk.co.firefox2100.ddg.auth.request",
     AUTH_INVITE |-> "uk.co.firefox2100.ddg.auth.invite",
     AUTH_REQUEST_RESPONSE |-> "uk.co.firefox2100.ddg.auth.request.response",
     AUTH_INVITE_RESPONSE |-> "uk.co.firefox2100.ddg.auth.invite.response",
     AUTH_CONNECT |-> "uk.co.firefox2100.ddg.auth.connect"]

\* the networks of the admission runs: n1 is a network of this gateway, n2 is
\* a network only peers have at the start
AdmNetworks == {"n1", "n2"}
\* the id of the one received message the peers post (a peer may post the
\* same message again)
ReceivedIds == {"r1"}
\* the message id uuid4() gives the n-th message this gateway sends
uuid4(n) == "u" \o ToString(n)
\* the instance id uuid4() gives the network made while message_id is handled
InstanceId(message_id) == "i_" \o message_id
\* the nonce secrets.token_hex() gives the n-th challenge
token_hex(n) == "c" \o ToString(n)
\* the public key of a peer's node
KeyOf(node_id) == "key_" \o node_id
\* the placeholder id send_join_request gives the network it asks to join
PendingId(network_id) == "pending-" \o network_id

(***************************************************************************)
(* cache/memory/cache.py: the challenges                                   *)
(***************************************************************************)
\* MemoryCache.save_challenge at time t
MemoryCache_save_challenge(challenges, nonce, difficulty, t) ==
    (nonce :> [difficulty |-> difficulty, timestamp |-> t]) @@ challenges

\* a get_challenge that does not look at the age of the challenge
MemoryCache_get_challenge_no_expiry(challenges, nonce, t) ==
    IF nonce \in DOMAIN challenges THEN challenges[nonce].difficulty ELSE 0

\* MemoryCache.get_challenge at time t: the difficulty, or 0 for None (the
\* caller only tests the result for truth before it uses it)
MemoryCache_get_challenge(challenges, nonce, t) ==
    IF nonce \in DOMAIN challenges
       /\ challenges[nonce].timestamp + CHALLENGE_TTL > t
    THEN challenges[nonce].difficulty
    ELSE 0

(***************************************************************************)
(* etc/powlib/binding.py                                                   *)
(***************************************************************************)
\* the leading zero bits of sha256(f'{nonce}{response}'): the response solve()
\* finds for a nonce has exactly the asked number, the response "weak" one
\* fewer, any other response (the solution of another nonce too) none
LeadingZeroBits(nonce, response) ==
    IF response = nonce THEN challenge_difficulty
    ELSE IF response = "weak" THEN challenge_difficulty - 1
    ELSE 0

\* solve(nonce, difficulty)
solve(nonce) == nonce

\* validate(nonce, difficulty, response): bin_hash.startswith('0' * difficulty)
validate(nonce, difficulty, response) ==
    LeadingZeroBits(nonce, response) >= difficulty

(***************************************************************************)
(* kms/kms.py, kms/memory.py                                               *)
(***************************************************************************)
\* Kms.verify_signature(payload, public_pem, signature) of a payload signed
\* with the private half of signing_key: public_pem.encode() fails on None
verify_signature(public_pem, signing_key) ==
    IF public_pem = NoneStr THEN "AttributeError"
    ELSE IF public_pem = signing_key THEN "True" ELSE "False"

\* MemoryKms.generate_network_node_key
MemoryKms_generate_network_node_key(keys, network_id) ==
    (network_id :> [privateKey |-> "node_priv_" \o network_id,
                    publicKey |-> "node_pub_" \o network_id]) @@ keys

\* MemoryKms.store_network_management_key: the key that was stored before
\* stays as previousKey
MemoryKms_store_network_management_key(keys, public_key, network_id, private_key) ==
    LET payload == IF private_key # NoneStr
                   THEN [publicKey |-> public_key, privateKey |-> private_key]
                   ELSE [publicKey |-> public_key]
        previous == IF private_key # NoneStr
                    THEN [publicKey |-> keys[network_id].publicKey,
                          privateKey |-> keys[network_id].privateKey]
                    ELSE [publicKey |-> keys[network_id].publicKey]
    IN IF network_id \in DOMAIN keys
       THEN (network_id :> (payload @@ [previousKey |-> previous])) @@ keys
       ELSE (network_id :> payload) @@ keys

\* get_network_management_private_key raises when no key or no private half
\* is stored
MemoryKms_has_private_key(keys, network_id) ==
    /\ network_id \in DOMAIN keys
    /\ "privateKey" \in DOMAIN keys[network_id]

(***************************************************************************)
(* The admission messages.  A message is the payload its to_dict() gives:  *)
(* the node travels with its public key in the request a peer posts and    *)
(* without it in the stored copy.                                          *)
(***************************************************************************)
\* the description of a network as every gateway that has it gives it
NetworkInfo(network_id, instance_id) ==
    Network(network_id, "name_" \o network_id, "", << >>, TRUE, FALSE,
            instance_id, NoneStr)

\* AuthRequest / AuthInvite.to_dict(): the node is written by node.to_dict(),
\* which leaves the public key out
AuthMessage_to_dict(message_type, message_id, network_id, node) ==
    [messageType |-> message_type,
     metadata |-> [messageId |-> message_id, networkId |-> network_id,
                   nodeId |-> node.node_id],
     node |-> Node_to_dict(node, FALSE)]

(***************************************************************************)
(* database/memory/network_message.py                                      *)
(***************************************************************************)
\* a save_sent_request that leaves requires_polling at its default
MemoryNetworkMessageRepository_save_sent_request_default(sent, target_url, request, requires_polling) ==
    (request.metadata.messageId :>
        [targetUrl |-> target_url, request |-> request,
         requiresPolling |-> FALSE,
         status |-> AuthMessageStatus.PENDING]) @@ sent

MemoryNetworkMessageRepository_save_sent_request(sent, target_url, request, requires_polling) ==
    (request.metadata.messageId :>
        [targetUrl |-> target_url, request |-> request,
         requiresPolling |-> requires_polling,
         status |-> AuthMessageStatus.PENDING]) @@ sent

\* save_received_request: a record with the same message id is replaced
MemoryNetworkMessageRepository_save_received_request(received, request) ==
    (request.metadata.messageId :>
        [request |-> request, status |-> AuthMessageStatus.PENDING]) @@ received

\* update_request_status writes the received record of the id when there is
\* one, the sent record otherwise, and raises when there is neither
MemoryNetworkMessageRepository_update_received(received, request_id, status) ==
    IF request_id \in DOMAIN received
    THEN [received EXCEPT ![request_id].status = status]
    ELSE received

MemoryNetworkMessageRepository_update_sent(received, sent, request_id, status) ==
    IF request_id \notin DOMAIN received /\ request_id \in DOMAIN sent
    THEN [sent EXCEPT ![request_id].status = status]
    ELSE sent

(***************************************************************************)
(* database/memory/network.py                                              *)
(***************************************************************************)
\* MemoryNetworkRepository.save, for a network id that is not stored (save
\* raises ValueError for one that is)
MemoryNetworkRepository_save(networks, network) ==
    (network.network_id :> Network_to_dict(network)) @@ networks

\* MemoryNetworkRepository.delete, for a stored id
MemoryNetworkRepository_delete(networks, network_id) ==
    [n \in DOMAIN networks \ {network_id} |-> networks[n]]

\* MemoryNetworkRepository.add_node: how the call ends.  The node is saved
\* first (ValueError for a stored node id), then the network is looked up.
MemoryNetworkRepository_add_node_result(networks, nodes, network_id, node) ==
    IF node.node_id \in DOMAIN nodes THEN "ValueError: node exists"
    ELSE IF network_id \notin DOMAIN networks THEN "ValueError: no network"
    ELSE "ok"

\* the nodes after add_node: the node is stored unless its id was
MemoryNetworkRepository_add_node_nodes(nodes, node) ==
    IF node.node_id \in DOMAIN nodes THEN nodes
    ELSE MemoryNodeRepository_save(nodes, node)

\* the networks after add_node: the id is appended when the call gets there
MemoryNetworkRepository_add_node_networks(networks, nodes, network_id, node) ==
    IF MemoryNetworkRepository_add_node_result(networks, nodes, network_id, node) = "ok"
    THEN [networks EXCEPT ![network_id].nodeIds = Append(@, node.node_id)]
    ELSE networks

(***************************************************************************)
(* The admission handlers                                                  *)
(***************************************************************************)
\* what a handler answered: the status code and the error text
Answer(op, code, error) == [op |-> op, code |-> code, error |-> error]

\* this gateway is node "self" of n1, which has the approved node "a"; the KMS
\* has the node key and the management key of n1
AdmInit ==
    /\ cache_driver = "memory"
    /\ MemoryCache_routes = << >>
    /\ redis_route = << >>
    /\ cache_ret = [op |-> "none"]
    /\ BrokerIdle
    /\ ConnIdle
    /\ db_networks = ("n1" :> Network_to_dict(
                                 [NetworkInfo("n1", "self") EXCEPT !.node_ids = <<"a">>]))
    /\ db_nodes = ("a" :> StoredNode("a", TRUE))
    /\ db_receivedRequests = << >>
    /\ db_sentRequests = << >>
    /\ kms_network_node_keys = MemoryKms_generate_network_node_key(<< >>, "n1")
    /\ kms_network_management_keys =
           MemoryKms_store_network_management_key(<< >>, "mgmt_pub_n1", "n1",
                                                  "mgmt_priv_n1")
    /\ kms_driver \in KmsDrivers
    /\ MemoryCache_challenges = << >>
    /\ now = 0
    /\ uuid_next = 1
    /\ inflight = {}
    /\ adm_ret = NoRet

\* what the admission handlers leave alone besides the database
outsideAdm == <<cacheVars, brokerVars, kms_driver>>

\* time passes
Tick ==
    /\ now < MaxTicks * ClockStep
    /\ now' = now + ClockStep
    /\ adm_ret' = NoRet
    /\ UNCHANGED <<outsideAdm, dbVars, connVars, msgVars, kmsVars,
                   MemoryCache_challenges, uuid_next, inflight>>

\* GET /service/challenge
get_challenge ==
    /\ Cardinality(DOMAIN MemoryCache_challenges) < MaxChallenges
    /\ MemoryCache_challenges' =
           MemoryCache_save_challenge(
               MemoryCache_challenges,
               token_hex(Cardinality(DOMAIN MemoryCache_challenges) + 1),
               challenge_difficulty, now)
    /\ adm_ret' = Answer("get_challenge", 200, "")
    /\ UNCHANGED <<outsideAdm, dbVars, connVars, msgVars, kmsVars, now, uuid_next,
                   inflight>>

\* how POST /service/requests answers a message of message_type whose node
\* carries public_key, signed with the private half of signing_key (None: the
\* request has no Message-Signature header), with the solution of the
\* challenge nonce
submit_request_answer(message_type, public_key, signing_key, nonce, solution) ==
    LET challenge_difficulty_ == MemoryCache_get_challenge(MemoryCache_challenges,
                                                           nonce, now)
        verified == verify_signature(public_key, signing_key)
    IN IF signing_key = NoneStr
       THEN Answer("submit_request", 400, "No signature provided in request headers.")
       ELSE IF challenge_difficulty_ = 0
       THEN Answer("submit_request", 403, "Invalid challenge nonce.")
       ELSE IF ~validate(nonce, challenge_difficulty_, solution)
       THEN Answer("submit_request", 403, "Invalid challenge solution.")
       ELSE IF message_type \notin {MessageType.AUTH_REQUEST, MessageType.AUTH_INVITE}
       THEN Answer("submit_request", 400, "Invalid message type specified.")
       ELSE IF verified = "AttributeError"
       THEN Answer("submit_request", 500, "AttributeError")
       ELSE IF verified = "False"
       THEN Answer("submit_request", 403,
                   IF message_type = MessageType.AUTH_REQUEST
                   THEN "Invalid signature for auth request."
                   ELSE "Invalid signature for auth invite.")
       ELSE Answer("submit_request", 200, "")

\* POST /service/requests.  The answer keeps what the request was: its nonce,
\* the leading zero bits its solution gives with the nonce, and whether it
\* was signed with the key of the node it carries.
submit_request(message_type, message_id, network_id, sender, public_key, signing_key, nonce, solution) ==
    LET answer == submit_request_answer(message_type, public_key, signing_key,
                                        nonce, solution)
        node == Node(sender, "http://" \o sender, public_key, FALSE)
        request == AuthMessage_to_dict(message_type, message_id, network_id, node)
    IN /\ IF answer.code = 200
          THEN db_receivedRequests' =
                   MemoryNetworkMessageRepository_save_received_request(
                       db_receivedRequests, request)
          ELSE UNCHANGED db_receivedRequests
       /\ adm_ret' = answer @@ [message_id |-> message_id, nonce |-> nonce,
                                zero_bits |-> LeadingZeroBits(nonce, solution),
                                has_signature |-> signing_key # NoneStr,
                                signed |-> (public_key # NoneStr
                                            /\ signing_key = public_key)]
       /\ UNCHANGED <<outsideAdm, dbVars, connVars, db_sentRequests, kmsVars,
                      MemoryCache_challenges, now, uuid_next, inflight>>

\* the management key a gateway of network_id hands out with an invite or an
\* approval (these networks have no central node, so the private half goes
\* with it)
ManagementKeyOf(network_id) ==
    [publicKey |-> "mgmt_pub_" \o network_id,
     privateKey |-> "mgmt_priv_" \o network_id]

\* a management_key that has the private half whatever the network is
management_key_with_private(network, keys) ==
    [publicKey |-> keys[network.networkId].publicKey,
     privateKey |-> keys[network.networkId].privateKey]

\* the management_key process_join_request and send_join_invite give their
\* message: the public key, and the private key too when the network has no
\* central node
management_key(network, keys) ==
    IF network.centralNode = NoneStr
    THEN [publicKey |-> keys[network.networkId].publicKey,
          privateKey |-> keys[network.networkId].privateKey]
    ELSE [publicKey |-> keys[network.networkId].publicKey]

\* the node a gateway describes itself with in the messages of a network
SelfNode(network) ==
    Node(network.instanceId, "http://self",
         kms_network_node_keys[network.networkId].publicKey, FALSE)

\* an approving AuthRequestResponse as its to_dict() gives it
AuthRequestResponse_to_dict(message_id, network, node, justification, key) ==
    [messageType |-> MessageType.AUTH_REQUEST_RESPONSE,
     metadata |-> [messageId |-> message_id, networkId |-> network.networkId,
                   nodeId |-> network.instanceId],
     approved |-> TRUE,
     node |-> Node_to_dict(node, TRUE),
     network |-> network,
     justification |-> justification,
     managementKey |-> key]

\* a rejecting response: neither node nor network nor key
AuthResponse_rejected(message_type, message_id, network_id, node_id) ==
    [messageType |-> message_type,
     metadata |-> [messageId |-> message_id, networkId |-> network_id,
                   nodeId |-> node_id],
     approved |-> FALSE,
     justification |-> "No justification provided"]

\* the AuthInvite send_join_invite makes: the network goes without its node
\* ids, the management key as the network allows
AuthInvite_sent(message_id, network) ==
    [messageType |-> MessageType.AUTH_INVITE,
     metadata |-> [messageId |-> message_id, networkId |-> network.networkId,
                   nodeId |-> network.instanceId],
     node |-> Node_to_dict(SelfNode(network), TRUE),
     network |-> [network EXCEPT !.nodeIds = << >>],
     justification |-> "No justification provided",
     managementKey |-> management_key(network, kms_network_management_keys)]

\* a call that waits for the answer to the HTTP POST of its message
Call(name, message_id, network_id, node_id, approve) ==
    [call |-> name, message_id |-> message_id, network_id |-> network_id,
     node_id |-> node_id, approve |-> approve]

\* process_join_request up to the POST of the response: the status is written
\* first, then the network is loaded, the keys are read and the node is added
process_join_request(request, approve) ==
    LET request_id == request.metadata.messageId
        network_id == request.metadata.networkId
        new_node == [Node_from_dict(request.node) EXCEPT !.approved = TRUE]
        added == MemoryNetworkRepository_add_node_result(db_networks, db_nodes,
                                                         network_id, new_node)
        signature == sign_payload(request_id, network_id)
        failed == IF network_id \notin DOMAIN db_networks
                 THEN Answer("respond_to_request", 404, "NetworkNotFoundException")
                 ELSE IF ~approve THEN NoRet
                 ELSE IF \/ network_id \notin DOMAIN kms_network_node_keys
                         \/ network_id \notin DOMAIN kms_network_management_keys
                         \/ /\ db_networks[network_id].centralNode = NoneStr
                            /\ ~MemoryKms_has_private_key(
                                    kms_network_management_keys, network_id)
                 THEN Answer("respond_to_request", 500, "KmsKeyManagementException")
                 ELSE IF added # "ok"
                 THEN Answer("respond_to_request", 500, added)
                 ELSE NoRet
        \* post_message signs the response before it posts it
        error == IF failed # NoRet THEN failed
                 ELSE IF IsRaised(signature)
                 THEN Answer("respond_to_request", SignErrorCode(signature.raises),
                             signature.raises)
                 ELSE NoRet
    IN /\ db_receivedRequests' =
              MemoryNetworkMessageRepository_update_received(
                  db_receivedRequests, request_id,
                  IF approve THEN AuthMessageStatus.ACCEPTED
                  ELSE AuthMessageStatus.REJECTED)
       /\ adm_ret' = error
       /\ IF failed = NoRet /\ approve
          THEN /\ db_nodes' = MemoryNetworkRepository_add_node_nodes(db_nodes, new_node)
               /\ db_networks' = MemoryNetworkRepository_add_node_networks(
                                     db_networks, db_nodes, network_id, new_node)
          ELSE UNCHANGED <<db_networks, db_nodes>>
       /\ IF error = NoRet
          THEN inflight' = inflight \cup
                   {Call("process_join_request", request_id, network_id,
                         request.node.nodeId, approve)
                    @@ [message |->
                          IF approve
                          THEN AuthRequestResponse_to_dict(
                                   request_id, db_networks[network_id],
                                   SelfNode(db_networks[network_id]),
                                   "No justification provided",
                                   management_key(db_networks[network_id],
                                                  kms_network_management_keys))
                          ELSE AuthResponse_rejected(
                                   MessageType.AUTH_REQUEST_RESPONSE, request_id,
                                   network_id,
                                   db_networks[network_id].instanceId)]}
          ELSE UNCHANGED inflight
       /\ UNCHANGED kmsVars

\* process_join_invite up to the POST of the response: the status is written
\* first; an approval saves the network of the invite under a new instance
\* id, stores the management key, makes the node key and adds the inviter
process_join_invite(invite, approve) ==
    LET request_id == invite.metadata.messageId
        network_id == invite.metadata.networkId
        network == NetworkInfo(network_id, InstanceId(request_id))
        exists == network_id \in DOMAIN db_networks
        networks1 == MemoryNetworkRepository_save(db_networks, network)
        new_node == [Node_from_dict(invite.node) EXCEPT !.approved = TRUE]
        added == MemoryNetworkRepository_add_node_result(networks1, db_nodes,
                                                         network_id, new_node)
        stored == approve /\ ~exists
        keys1 == IF stored
                 THEN MemoryKms_generate_network_node_key(kms_network_node_keys,
                                                          network_id)
                 ELSE kms_network_node_keys
        \* post_message signs the response before it posts it
        signature == sign_payload_with(keys1, request_id, network_id)
    IN /\ db_receivedRequests' =
              MemoryNetworkMessageRepository_update_received(
                  db_receivedRequests, request_id,
                  IF approve THEN AuthMessageStatus.ACCEPTED
                  ELSE AuthMessageStatus.REJECTED)
       /\ adm_ret' = IF approve /\ exists
                     THEN Answer("respond_to_request", 500, "ValueError: network exists")
                     ELSE IF approve /\ added # "ok"
                     THEN Answer("respond_to_request", 500, added)
                     ELSE IF IsRaised(signature)
                     THEN Answer("respond_to_request",
                                 SignErrorCode(signature.raises), signature.raises)
                     ELSE NoRet
       /\ IF stored
          THEN /\ db_networks' = MemoryNetworkRepository_add_node_networks(
                                     networks1, db_nodes, network_id, new_node)
               /\ db_nodes' = MemoryNetworkRepository_add_node_nodes(db_nodes, new_node)
               /\ kms_network_management_keys' =
                      MemoryKms_store_network_management_key(
                          kms_network_management_keys,
                          ManagementKeyOf(network_id).publicKey, network_id,
                          ManagementKeyOf(network_id).privateKey)
               /\ kms_network_node_keys' = keys1
          ELSE UNCHANGED <<db_networks, db_nodes, kmsVars>>
       /\ IF (~approve \/ (stored /\ added = "ok")) /\ ~IsRaised(signature)
          THEN inflight' = inflight \cup
                   {Call("process_join_invite", request_id, network_id,
                         invite.node.nodeId, approve)}
          ELSE UNCHANGED inflight

\* PATCH /manage/requests/<request_id> up to the POST of the response
respond_to_request(request_id, approve) ==
    /\ Cardinality(inflight) < MaxInflight
    /\ IF request_id \notin DOMAIN db_receivedRequests
       THEN /\ adm_ret' = Answer("respond_to_request", 404,
                                 "NetworkMessageNotFoundException")
            /\ UNCHANGED <<dbVars, db_receivedRequests, kmsVars, inflight>>
       ELSE IF db_receivedRequests[request_id].status # AuthMessageStatus.PENDING
       THEN /\ adm_ret' = Answer("respond_to_request", 400,
                                 "Request has already been processed")
            /\ UNCHANGED <<dbVars, db_receivedRequests, kmsVars, inflight>>
       ELSE IF db_receivedRequests[request_id].request.messageType
                   = MessageType.AUTH_REQUEST
       THEN process_join_request(db_receivedRequests[request_id].request, approve)
       ELSE process_join_invite(db_receivedRequests[request_id].request, approve)
    /\ UNCHANGED <<outsideAdm, connVars, db_sentRequests, MemoryCache_challenges, now,
                   uuid_next>>

\* the rest of process_join_request / process_join_invite: the POST of the
\* response ended as post_ok says; after an approval that was delivered the
\* connection to the peer is established
process_join_posted(c, post_ok) ==
    /\ c \in inflight
    /\ c.call \in {"process_join_request", "process_join_invite"}
    /\ inflight' = inflight \ {c}
    /\ IF post_ok /\ c.approve /\ get_route(c.node_id) = None
       THEN /\ AllRunningTasks < MaxTasks
            /\ TaskStarts(c.node_id, "probing")
       ELSE UNCHANGED est
    /\ adm_ret' = [Answer("respond_to_request", 200, "") EXCEPT !.op = c.call]
    /\ UNCHANGED <<outsideAdm, dbVars, conn_ret, msgVars, kmsVars,
                   MemoryCache_challenges, now, uuid_next>>

\* the URL the join requests and invites of the runs go to
TargetUrl == "http://peer"

\* send_join_request(target_url, network_id) up to the POST of the request.
\* listed: the target lists the network under GET /service/networks.
send_join_request(network_id, listed) ==
    /\ Cardinality(inflight) < MaxInflight
    /\ uuid_next <= MaxUuid
    /\ IF ~listed
       THEN /\ adm_ret' = Answer("send_join_request", 404, "JoiningNetworkException")
            /\ UNCHANGED <<db_networks, kmsVars, uuid_next, inflight>>
       ELSE IF PendingId(network_id) \in DOMAIN db_networks
       THEN /\ adm_ret' = Answer("send_join_request", 500, "ValueError: network exists")
            /\ UNCHANGED <<db_networks, kmsVars, uuid_next, inflight>>
       ELSE /\ db_networks' = MemoryNetworkRepository_save(
                                  db_networks,
                                  [NetworkInfo(network_id, InstanceId(uuid4(uuid_next)))
                                      EXCEPT !.network_id = PendingId(network_id)])
            /\ kms_network_node_keys' =
                   MemoryKms_generate_network_node_key(kms_network_node_keys,
                                                       network_id)
            /\ uuid_next' = uuid_next + 1
            \* post_message signs the request before it posts it
            /\ LET signature == sign_payload_with(kms_network_node_keys',
                                                  uuid4(uuid_next), network_id)
               IN IF IsRaised(signature)
                  THEN /\ adm_ret' = Answer("send_join_request",
                                            SignErrorCode(signature.raises),
                                            signature.raises)
                       /\ UNCHANGED inflight
                  ELSE /\ inflight' = inflight \cup
                              {Call("send_join_request", uuid4(uuid_next), network_id,
                                    InstanceId(uuid4(uuid_next)), FALSE)}
                       /\ adm_ret' = NoRet
            /\ UNCHANGED kms_network_management_keys
    /\ UNCHANGED <<outsideAdm, db_nodes, connVars, msgVars, MemoryCache_challenges, now>>

\* send_join_invite(target_url, network_id) up to the POST of the invite
send_join_invite(network_id) ==
    /\ Cardinality(inflight) < MaxInflight
    /\ uuid_next <= MaxUuid
    /\ IF network_id \notin DOMAIN db_networks
       THEN /\ adm_ret' = Answer("send_join_invite", 404, "NetworkNotFoundException")
            /\ UNCHANGED <<uuid_next, inflight>>
       ELSE IF /\ db_networks[network_id].centralNode # NoneStr
               /\ db_networks[network_id].centralNode # db_networks[network_id].instanceId
       THEN /\ adm_ret' = Answer("send_join_invite", 503, "InvitingNodeException")
            /\ UNCHANGED <<uuid_next, inflight>>
       ELSE IF \/ network_id \notin DOMAIN kms_network_node_keys
               \/ network_id \notin DOMAIN kms_network_management_keys
               \/ /\ db_networks[network_id].centralNode = NoneStr
                  /\ ~MemoryKms_has_private_key(kms_network_management_keys,
                                               network_id)
       THEN /\ adm_ret' = Answer("send_join_invite", 500, "KmsKeyManagementException")
            /\ UNCHANGED <<uuid_next, inflight>>
       ELSE /\ uuid_next' = uuid_next + 1
            \* post_message signs the invite before it posts it
            /\ LET signature == sign_payload(uuid4(uuid_next), network_id)
               IN IF IsRaised(signature)
                  THEN /\ adm_ret' = Answer("send_join_invite",
                                            SignErrorCode(signature.raises),
                                            signature.raises)
                       /\ UNCHANGED inflight
                  ELSE /\ inflight' = inflight \cup
                              {Call("send_join_invite", uuid4(uuid_next), network_id,
                                    db_networks[network_id].instanceId, FALSE)
                               @@ [message |->
                                     AuthInvite_sent(uuid4(uuid_next),
                                                     db_networks[network_id])]}
                       /\ adm_ret' = NoRet
    /\ UNCHANGED <<outsideAdm, dbVars, connVars, msgVars, kmsVars,
                   MemoryCache_challenges, now>>

\* the answers POST /service/requests gives to a request it took
Replies == {[status |-> "success", reachable |-> r] : r \in BOOLEAN}

\* dict.get(key, default)
dict_get(dict, key, default) ==
    IF key \in DOMAIN dict THEN dict[key] ELSE default

\* the rest of send_join_request / send_join_invite: the POST failed
send_join_failed(c) ==
    /\ c \in inflight
    /\ c.call \in {"send_join_request", "send_join_invite"}
    /\ inflight' = inflight \ {c}
    /\ adm_ret' = Answer(c.call, 502, "NetworkRequestFailedException")
    /\ UNCHANGED <<outsideAdm, dbVars, connVars, msgVars, kmsVars,
                   MemoryCache_challenges, now, uuid_next>>

\* the rest of send_join_request / send_join_invite: the target answered the
\* POST with join_response, and the request is stored as sent
send_join_posted(c, join_response) ==
    LET message_type == IF c.call = "send_join_request"
                        THEN MessageType.AUTH_REQUEST ELSE MessageType.AUTH_INVITE
        node == Node(c.node_id, "http://self",
                     kms_network_node_keys[c.network_id].publicKey, FALSE)
        request == AuthMessage_to_dict(message_type, c.message_id, c.network_id, node)
    IN /\ c \in inflight
       /\ c.call \in {"send_join_request", "send_join_invite"}
       /\ inflight' = inflight \ {c}
       /\ db_sentRequests' =
              MemoryNetworkMessageRepository_save_sent_request(
                  db_sentRequests, TargetUrl, request,
                  ~dict_get(join_response, "reachable", FALSE))
       /\ adm_ret' = Answer(c.call, 200, "")
                     @@ [message_id |-> c.message_id,
                         reachable |-> join_response.reachable]
       /\ UNCHANGED <<outsideAdm, dbVars, connVars, db_receivedRequests, kmsVars,
                      MemoryCache_challenges, now, uuid_next>>

\* the node a response carries, as submit_response stores it
ResponseNode(responder) ==
    Node(responder, "http://" \o responder, KeyOf(responder), TRUE)

\* submit_response for an AuthRequestResponse to a sent AuthRequest.  network
\* says what the response carries as its network: the description the
\* placeholder has ("match"), another one ("mismatch"), or nothing ("none",
\* as in a rejection process_join_request sends).
submit_request_response(request_id, approved, responder, network) ==
    LET network_id == db_sentRequests[request_id].request.metadata.networkId
        placeholder == PendingId(network_id)
        local_network == [Network_from_dict(db_networks[placeholder])
                             EXCEPT !.central_node = NoneStr, !.visible = TRUE,
                                    !.network_id = network_id]
        new_node == ResponseNode(responder)
        networks1 == MemoryNetworkRepository_save(db_networks, local_network)
        added == MemoryNetworkRepository_add_node_result(networks1, db_nodes,
                                                         network_id, new_node)
        networks2 == MemoryNetworkRepository_add_node_networks(
                         networks1, db_nodes, network_id, new_node)
        status == IF approved THEN AuthMessageStatus.ACCEPTED
                  ELSE AuthMessageStatus.REJECTED
        error == IF placeholder \notin DOMAIN db_networks
                 THEN Answer("submit_response", 404, "NetworkNotFoundException")
                 ELSE IF network = "none"
                 THEN Answer("submit_response", 500, "AttributeError")
                 ELSE IF network = "mismatch"
                 THEN Answer("submit_response", 400,
                             "Response data does not match the original request.")
                 ELSE IF approved /\ network_id \in DOMAIN db_networks
                 THEN Answer("submit_response", 500, "ValueError: network exists")
                 ELSE IF approved /\ added # "ok"
                 THEN Answer("submit_response", 500, added)
                 ELSE Answer("submit_response", 200, "")
    IN /\ adm_ret' = error
       /\ IF error.code = 200
          THEN /\ db_networks' = MemoryNetworkRepository_delete(
                                     IF approved THEN networks2 ELSE db_networks,
                                     placeholder)
               /\ db_nodes' = IF approved
                              THEN MemoryNetworkRepository_add_node_nodes(db_nodes,
                                                                          new_node)
                              ELSE db_nodes
               /\ kms_network_management_keys' =
                      IF approved
                      THEN MemoryKms_store_network_management_key(
                               kms_network_management_keys,
                               ManagementKeyOf(network_id).publicKey, network_id,
                               ManagementKeyOf(network_id).privateKey)
                      ELSE kms_network_management_keys
               /\ db_receivedRequests' =
                      MemoryNetworkMessageRepository_update_received(
                          db_receivedRequests, request_id, status)
               /\ db_sentRequests' =
                      MemoryNetworkMessageRepository_update_sent(
                          db_receivedRequests, db_sentRequests, request_id, status)
          ELSE /\ db_networks' = IF error.error = "ValueError: node exists"
                                 THEN networks1 ELSE db_networks
               /\ UNCHANGED <<db_nodes, kms_network_management_keys, msgVars>>

\* submit_response for an AuthInviteResponse to a sent AuthInvite
submit_invite_response(request_id, approved, responder) ==
    LET network_id == db_sentRequests[request_id].request.metadata.networkId
        new_node == ResponseNode(responder)
        added == MemoryNetworkRepository_add_node_result(db_networks, db_nodes,
                                                         network_id, new_node)
        status == IF approved THEN AuthMessageStatus.ACCEPTED
                  ELSE AuthMessageStatus.REJECTED
        error == IF network_id \notin DOMAIN db_networks
                 THEN Answer("submit_response", 404, "NetworkNotFoundException")
                 ELSE IF approved /\ added # "ok"
                 THEN Answer("submit_response", 500, added)
                 ELSE Answer("submit_response", 200, "")
    IN /\ adm_ret' = error
       /\ IF error.code = 200
          THEN /\ db_networks' =
                      IF approved
                      THEN MemoryNetworkRepository_add_node_networks(
                               db_networks, db_nodes, network_id, new_node)
                      ELSE db_networks
               /\ db_nodes' = IF approved
                              THEN MemoryNetworkRepository_add_node_nodes(db_nodes,
                                                                          new_node)
                              ELSE db_nodes
               /\ db_receivedRequests' =
                      MemoryNetworkMessageRepository_update_received(
                          db_receivedRequests, request_id, status)
               /\ db_sentRequests' =
                      MemoryNetworkMessageRepository_update_sent(
                          db_receivedRequests, db_sentRequests, request_id, status)
          ELSE UNCHANGED <<dbVars, msgVars>>
       /\ UNCHANGED kms_network_management_keys

\* POST /service/responses
submit_response(request_id, response_type, approved, responder, network) ==
    /\ IF request_id \notin DOMAIN db_sentRequests
       THEN /\ adm_ret' = Answer("submit_response", 404,
                                 "NetworkMessageNotFoundException")
            /\ UNCHANGED <<dbVars, msgVars, kms_network_management_keys>>
       ELSE IF /\ db_sentRequests[request_id].request.messageType
                      = MessageType.AUTH_REQUEST
               /\ response_type = MessageType.AUTH_REQUEST_RESPONSE
       THEN submit_request_response(request_id, approved, responder, network)
       ELSE IF /\ db_sentRequests[request_id].request.messageType
                      = MessageType.AUTH_INVITE
               /\ response_type = MessageType.AUTH_INVITE_RESPONSE
       THEN submit_invite_response(request_id, approved, responder)
       ELSE /\ adm_ret' = Answer("submit_response", 400,
                                 "Invalid message type specified for response.")
            /\ UNCHANGED <<dbVars, msgVars, kms_network_management_keys>>
    /\ UNCHANGED <<outsideAdm, connVars, kms_network_node_keys,
                   MemoryCache_challenges, now, uuid_next, inflight>>

\* the receiving side: peers ask for challenges and post requests and invites,
\* the operator decides them
AdmNext ==
    \/ Tick
    \/ get_challenge
    \/ \E message_type \in {MessageType.AUTH_REQUEST, MessageType.AUTH_INVITE,
                            MessageType.AUTH_CONNECT},
          message_id \in ReceivedIds, network_id \in AdmNetworks, sender \in Nodes,
          has_key \in BOOLEAN, signing_key \in {KeyOf(n) : n \in Nodes},
          nonce \in DOMAIN MemoryCache_challenges \cup {"unknown"},
          solution \in DOMAIN MemoryCache_challenges \cup {"weak"} :
          submit_request(message_type, message_id, network_id, sender,
                         IF has_key THEN KeyOf(sender) ELSE NoneStr,
                         signing_key, nonce, solution)
    \/ \E request_id \in ReceivedIds, approve \in BOOLEAN :
          respond_to_request(request_id, approve)
    \/ \E c \in inflight, post_ok \in BOOLEAN : process_join_posted(c, post_ok)

SpecAdm == AdmInit /\ [][AdmNext]_vars

\* the challenge gate on its own: challenges are made and age, and peers post
\* requests against them
ChallengeNext ==
    \/ Tick
    \/ get_challenge
    \/ \E message_type \in {MessageType.AUTH_REQUEST, MessageType.AUTH_INVITE,
                            MessageType.AUTH_CONNECT},
          message_id \in ReceivedIds, network_id \in AdmNetworks, sender \in Nodes,
          has_key \in BOOLEAN,
          signing_key \in {KeyOf(n) : n \in Nodes} \cup {NoneStr},
          nonce \in DOMAIN MemoryCache_challenges \cup {"unknown"},
          solution \in DOMAIN MemoryCache_challenges \cup {"weak"} :
          submit_request(message_type, message_id, network_id, sender,
                         IF has_key THEN KeyOf(sender) ELSE NoneStr,
                         signing_key, nonce, solution)

SpecChallenge == AdmInit /\ [][ChallengeNext]_vars

\* the sending side: the operator sends join requests and invites, the peers
\* answer them
JoinNext ==
    \/ \E network_id \in AdmNetworks, listed \in BOOLEAN :
          send_join_request(network_id, listed)
    \/ \E network_id \in AdmNetworks : send_join_invite(network_id)
    \/ \E c \in inflight : send_join_failed(c)
    \/ \E c \in inflight, join_response \in Replies :
          send_join_posted(c, join_response)
    \/ \E request_id \in DOMAIN db_sentRequests \cup {"unknown"},
          response_type \in {MessageType.AUTH_REQUEST_RESPONSE,
                             MessageType.AUTH_INVITE_RESPONSE},
          approved \in BOOLEAN, responder \in Nodes,
          network \in {"match", "mismatch", "none"} :
          submit_response(request_id, response_type, approved, responder, network)

SpecJoin == AdmInit /\ [][JoinNext]_vars

(***************************************************************************)
(* Routed traffic: send_message and broadcast_message with their callers   *)
(* (POST /manage/messages, the sync_known_nodes job, request_route, the    *)
(* SyncNode handler), the RouteNotification handler and POST               *)
(* /service/message.  The gateway runs on the memory cache and broker; the *)
(* KMS is the Vault driver (the default of SERVICE_CONFIG.kms_driver and   *)
(* the only driver that signs) and holds the node key of the network.      *)
(* The peers' transports are open or absent at the start, as the           *)
(* connection manager leaves them; they do not change during a run.        *)
(***************************************************************************)
\* a node the SyncNode message makes known
NewNode == "d"

\* the message ids uuid4() gives during a run
SendIds == {uuid4(n) : n \in 1..MaxUuid}

\* message types with a configuration in the registry: a request that has a
\* response type, and that response, whose `preceding` is the request
CustomRequest == "org.example.query"
CustomResponse == "org.example.query.response"
UnknownType == "org.example.unknown"

\* NetworkMessageRegistry._configurations
MessageConfig(response, preceding) == [response |-> response, preceding |-> preceding]
Configurations ==
    (CustomRequest :> MessageConfig(CustomResponse, NoneStr))
    @@ (CustomResponse :> MessageConfig(NoneStr, CustomRequest))

\* the internal message types, MessageType(value) succeeds for
InternalTypes == {MessageType[k] : k \in DOMAIN MessageType}

\* NetworkMessage.to_dict() of the messages the gateway builds
NetworkMessage_to_dict(message_type, message_id, network_id, node_id) ==
    [messageType |-> message_type,
     metadata |-> [networkId |-> network_id, nodeId |-> node_id,
                   messageId |-> message_id]]

\* RouteRequest(metadata, target_node).to_dict()
RouteRequest_to_dict(message_id, network_id, node_id, target_node) ==
    NetworkMessage_to_dict("route.request", message_id, network_id, node_id)
    @@ [targetNode |-> target_node]

\* RouteResponse(metadata, target_node, route).to_dict(), as a peer answers
RouteResponse_to_dict(message_id, network_id, node_id, target_node, route) ==
    NetworkMessage_to_dict("route.response", message_id, network_id, node_id)
    @@ [targetNode |-> target_node, route |-> route]

\* the envelope send_message hands to the broker
SignedEnvelope(message, signature) == [message |-> message, signature |-> signature]

\* node.url.rstrip("/") + "/service/message"
MessageUrl(node_id) == db_nodes[node_id].nodeUrl \o "/service/message"

\* send_message(message, node): how the call ends
send_message_ends(message, node_id, post_ok) ==
    send_message_result(get_route(node_id),
                        sign_payload(json_dumps(message), message.metadata.networkId),
                        post_ok)

\* send_message(message, node): the node queues of the broker after the call
send_message_queues(messages, message, node_id, post_ok) ==
    IF send_message_ends(message, node_id, post_ok) = "published"
    THEN MemoryMessageBroker_publish_message(
             messages, node_id,
             SignedEnvelope(message,
                 sign_payload(json_dumps(message), message.metadata.networkId).value))
    ELSE messages

\* send_message(message, node): the HTTP POSTs the call makes
send_message_posts(message, node_id, post_ok) ==
    IF send_message_ends(message, node_id, post_ok)
           \in {"posted", "NetworkRequestFailedException"}
    THEN {[url |-> MessageUrl(node_id), payload |-> message,
           signature |-> sign_payload(json_dumps(message),
                                      message.metadata.networkId).value]}
    ELSE {}

\* broadcast_message(message): what the loop over the nodes did
broadcast_message_ends(message, post_ok) ==
    broadcast_walk(get_nodes(message.metadata.networkId),
                   sign_payload(json_dumps(message), message.metadata.networkId),
                   post_ok)

\* broadcast_message(message): the node queues of the broker after the call
broadcast_message_queues(messages, message, post_ok) ==
    LET sent == broadcast_message_ends(message, post_ok)
    IN IF sent.published = {} THEN messages
       ELSE PublishAll(messages, sent.published,
                SignedEnvelope(message,
                    sign_payload(json_dumps(message), message.metadata.networkId).value))

\* the status code exception_handler answers with
ErrorCode(exception) ==
    IF exception = "NodeNotConnectedException" THEN 503
    ELSE IF exception = "NetworkRequestFailedException" THEN 502
    ELSE IF exception = "MessageBrokerTimeoutException" THEN 504
    ELSE IF exception = "KmsKeyManagementException" THEN 404
    ELSE 500

\* a call that waits in `async for ... in response_generator(...)`: what it
\* sent to whom, and how many responses had been yielded before it started
PendingCall(name, message_id, node_id, to, sent, start) ==
    [call |-> name, message_id |-> message_id, node_id |-> node_id, to |-> to,
     sent |-> sent, start |-> start]

\* what the steps of the routed traffic never touch
outsideSend ==
    <<cache_driver, redis_route, cache_ret, redis_message, redis_response,
      published, delivered, next_serial, broker_ret, msgVars, kmsVars,
      MemoryCache_challenges, now, adm_ret>>

\* how a peer's transport stands at the start
LinkKinds == {"none", "websocket", "sse"}

\* the route the connection manager has saved for an open transport
LinkRoute(p, kind) ==
    Route(LocalNetwork, p, "DIRECT", IF kind = "websocket" THEN "WEBSOCKET" ELSE "SSE",
          TRUE, << >>)

\* the tasks behind the transports
LinkTasks(kind) ==
    IF kind = "websocket" THEN [NoTasks EXCEPT !["ws_open"] = 1]
    ELSE IF kind = "sse" THEN [NoTasks EXCEPT !["sse_open"] = 1]
    ELSE NoTasks

SendInit ==
    /\ cache_driver = "memory"
    /\ redis_route = << >>
    /\ cache_ret = [op |-> "none"]
    /\ MemoryMessageBroker_messages = << >>
    /\ MemoryMessageBroker_responses = << >>
    /\ redis_message = << >>
    /\ redis_response = << >>
    /\ gen = GenIdle
    /\ gen_yielded = << >>
    /\ published = [n \in Nodes |-> << >>]
    /\ delivered = [n \in Nodes |-> << >>]
    /\ resp_added = [m \in SendIds |-> << >>]
    /\ next_serial = 1
    /\ broker_ret = [op |-> "none"]
    /\ conn_ret = NoRet
    /\ db_receivedRequests = << >>
    /\ db_sentRequests = << >>
    /\ kms_network_node_keys =
           (LocalNetwork :> [privateKey |-> "node_priv_" \o LocalNetwork,
                             publicKey |-> "node_pub_" \o LocalNetwork])
    /\ kms_network_management_keys = << >>
    /\ kms_driver = "vault"
    /\ MemoryCache_challenges = << >>
    /\ now = 0
    /\ uuid_next = 1
    /\ inflight = {}
    /\ adm_ret = NoRet
    /\ db_networks = (LocalNetwork :>
            Network_to_dict(Network(LocalNetwork, "net", "", <<"a", "b", Unapproved>>,
                                    TRUE, FALSE, "self", NoneStr)))
    /\ db_nodes = ("a" :> StoredNode("a", TRUE)) @@ ("b" :> StoredNode("b", TRUE))
                  @@ (Unapproved :> StoredNode(Unapproved, FALSE))
    /\ \E link \in [ApprovedNodes(LocalNetwork) -> LinkKinds] :
          /\ MemoryCache_routes =
                 [p \in {q \in DOMAIN link : link[q] # "none"} |->
                     Route_to_dict(LinkRoute(p, link[p]))]
          /\ est = [p \in Nodes |->
                       IF p \in DOMAIN link THEN LinkTasks(link[p]) ELSE NoTasks]

\* the responses the generator has yielded to the call c by the end of the step
Yielded(c) == SubSeq(gen_yielded', c.start + 1, Len(gen_yielded'))

\* request_route: the shortest non-empty route of the responses, the first of
\* its length; the empty sequence stands for None
RECURSIVE optimal_route(_, _)
optimal_route(responses, best) ==
    IF responses = << >> THEN best
    ELSE LET route == Head(responses).route
         IN optimal_route(Tail(responses),
                          IF route = << >> THEN best
                          ELSE IF best = << >> \/ Len(route) < Len(best) THEN route
                          ELSE best)

\* request_route once the generator has ended: MessageBrokerTimeoutException
\* passes through; otherwise the proxy route is built on the route of the
\* first hop
request_route_ends(c) ==
    LET optimal == optimal_route(Yielded(c), << >>)
        initial_route == get_route(optimal[1])
        result == IF gen'.state = "raised" THEN "MessageBrokerTimeoutException"
                  ELSE IF optimal = << >> THEN "False"
                  ELSE IF initial_route = None THEN "AttributeError"
                  ELSE "True"
    IN /\ IF result = "True"
          THEN MemoryCache_routes' =
                   MemoryCache_save_route(
                       MemoryCache_routes,
                       Route(LocalNetwork, c.node_id, "PROXY",
                             initial_route.transport_type, initial_route.outbound,
                             optimal))
          ELSE UNCHANGED MemoryCache_routes
       /\ conn_ret' = [op |-> "request_route", node_id |-> c.node_id,
                       result |-> result, sent |-> c.sent,
                       responses |-> Len(Yielded(c))]
       /\ UNCHANGED <<db_nodes, db_networks>>

\* POST /manage/messages once the generator has ended: the timeout is caught
manage_send_message_ends(c) ==
    /\ conn_ret' = [op |-> "manage_send_message", node_id |-> c.node_id,
                    result |-> "answered", code |-> 200,
                    deliveredCount |-> c.sent, responses |-> Yielded(c)]
    /\ UNCHANGED <<MemoryCache_routes, db_nodes, db_networks>>

\* MemoryNodeRepository.update of a stored node
MemoryNodeRepository_update(nodes, node) ==
    (node.node_id :> Node_to_dict(node, FALSE)) @@ nodes

\* the node a SyncNode message or response reports under node_id
ReportedNode(node_id, approved) ==
    Node(node_id, "http://" \o node_id \o "/new", KeyOf(node_id), approved)

\* Node.__eq__: id, name, url, public key, description and approved are
\* compared; the data index and the score are not
Node_eq(node, other) ==
    /\ node.node_id = other.node_id
    /\ node.url = other.url
    /\ node.public_key = other.public_key
    /\ node.approved = other.approved

\* the data indexes of the exercise: the empty one and one with an entry
DataIndexes == {{}, {"dataset"}}

\* Node.from_dict / Node.to_dict for the data index: 'dataIndex' is part of
\* the payload only for an index that is not empty
data_index_of(payload) ==
    IF "dataIndex" \in DOMAIN payload THEN payload.dataIndex ELSE {}
with_data_index(payload, data_index) ==
    IF data_index = {} THEN payload ELSE payload @@ [dataIndex |-> data_index]

\* a merge that takes the report as it is, approval and all
sync_merge_as_reported(new_node, existing_node) ==
    new_node

\* process_node_sync_message: n = deepcopy(new_node); n.approved =
\* existing_node.approved
sync_merge(new_node, existing_node) ==
    [new_node EXCEPT !.approved = existing_node.approved]

\* process_node_sync_message once the generator has ended: results[0] is the
\* node's own report, stored with the approval the node had
process_node_sync_message_ends(c) ==
    LET result == IF gen'.state = "raised" THEN "MessageBrokerTimeoutException"
                  ELSE IF Yielded(c) = << >> THEN "IndexError"
                  ELSE "updated"
    IN /\ IF result = "updated"
          THEN db_nodes' = MemoryNodeRepository_update(
                               db_nodes,
                               sync_merge(ReportedNode(c.node_id, FALSE),
                                          Node_from_dict(db_nodes[c.node_id])))
          ELSE UNCHANGED db_nodes
       /\ conn_ret' = [op |-> "process_node_sync_message", node_id |-> c.node_id,
                       result |-> result]
       /\ UNCHANGED <<MemoryCache_routes, db_networks>>

\* the call c after a step of its generator; first: the step started it.
\* While request_route waits, its _establish_connection task waits with it.
CallGoesOn(c, first) ==
    IF gen'.state = "running"
    THEN /\ inflight' = {c}
         /\ conn_ret' = [op |-> c.call, node_id |-> c.node_id, result |-> "waiting",
                         sent |-> c.sent]
         /\ IF first /\ c.call = "request_route"
            THEN TaskStarts(c.node_id, "relay_waiting") ELSE UNCHANGED est
         /\ UNCHANGED <<MemoryCache_routes, db_nodes, db_networks>>
    ELSE /\ inflight' = {}
         /\ IF ~first /\ c.call = "request_route"
            THEN TaskEnds(c.node_id, "relay_waiting") ELSE UNCHANGED est
         /\ IF c.call = "request_route" THEN request_route_ends(c)
            ELSE IF c.call = "manage_send_message" THEN manage_send_message_ends(c)
            ELSE process_node_sync_message_ends(c)

\* POST /manage/messages up to the first wait of its response generator
manage_send_message(message_type, target_node, broadcast, post_ok) ==
    LET message == NetworkMessage_to_dict(message_type, uuid4(uuid_next), LocalNetwork,
                                          db_networks[LocalNetwork].instanceId)
        early == IF message_type \in InternalTypes THEN 400
                 ELSE IF message_type \notin DOMAIN Configurations THEN 404
                 ELSE IF target_node \notin DOMAIN db_nodes THEN 500
                 ELSE IF ~db_nodes[target_node].approved THEN 403
                 ELSE 0
        sent == broadcast_message_ends(message, post_ok)
        ends == IF broadcast
                THEN IF sent.raised # NoneStr THEN sent.raised ELSE "sent"
                ELSE send_message_ends(message, target_node, post_ok)
        messages_sent == IF broadcast THEN Cardinality(sent.published \cup sent.posted)
                         ELSE 1
        c == PendingCall("manage_send_message", message.metadata.messageId,
                         target_node,
                         IF broadcast THEN sent.published \cup sent.posted
                         ELSE {target_node},
                         messages_sent, Len(gen_yielded))
    IN /\ gen.state # "running"
       /\ IF early # 0
          THEN /\ conn_ret' = [op |-> "manage_send_message", node_id |-> target_node,
                               result |-> "refused", code |-> early,
                               broadcast |-> broadcast]
               /\ UNCHANGED <<MemoryMessageBroker_messages,
                              MemoryMessageBroker_responses, gen, gen_yielded,
                              uuid_next, inflight, est, MemoryCache_routes, db_nodes,
                              db_networks>>
          ELSE /\ uuid_next <= MaxUuid
               /\ uuid_next' = uuid_next + 1
               /\ MemoryMessageBroker_messages' =
                      IF broadcast
                      THEN broadcast_message_queues(MemoryMessageBroker_messages,
                                                    message, post_ok)
                      ELSE send_message_queues(MemoryMessageBroker_messages, message,
                                               target_node, post_ok)
               /\ IF ends \in {"sent", "published", "posted", "nothing"}
                  THEN /\ GenPoll(c.message_id, messages_sent, 0, 0, FALSE, 0)
                       /\ inflight' = IF gen'.state = "running" THEN {c} ELSE {}
                       /\ conn_ret' =
                              [op |-> "manage_send_message", node_id |-> target_node,
                               result |-> ends, broadcast |-> broadcast,
                               message |-> message, message_type |-> message_type,
                               to |-> IF broadcast
                                      THEN sent.published \cup sent.posted
                                      ELSE IF ends \in {"published", "posted"}
                                      THEN {target_node} ELSE {},
                               posts |-> IF broadcast THEN {}
                                         ELSE send_message_posts(message, target_node,
                                                                 post_ok),
                               code |-> IF gen'.state = "running" THEN 0 ELSE 200,
                               deliveredCount |-> messages_sent,
                               responses |-> Yielded(c)]
                  ELSE /\ conn_ret' =
                              [op |-> "manage_send_message", node_id |-> target_node,
                               result |-> ends, broadcast |-> broadcast,
                               message |-> message, message_type |-> message_type,
                               to |-> IF broadcast
                                      THEN sent.published \cup sent.posted
                                      ELSE IF ends \in {"published", "posted"}
                                      THEN {target_node} ELSE {},
                               posts |-> IF broadcast THEN {}
                                         ELSE send_message_posts(message, target_node,
                                                                 post_ok),
                               code |-> ErrorCode(ends)]
                       /\ UNCHANGED <<MemoryMessageBroker_responses, gen, gen_yielded,
                                      inflight>>
               /\ UNCHANGED <<est, MemoryCache_routes, db_nodes, db_networks>>
       /\ UNCHANGED <<resp_added, outsideSend>>

\* the sync_known_nodes job: a SyncNode message is broadcast in the network
sync_known_nodes(post_ok) ==
    LET message == NetworkMessage_to_dict("sync.node", uuid4(uuid_next), LocalNetwork,
                                          db_networks[LocalNetwork].instanceId)
        sent == broadcast_message_ends(message, post_ok)
    IN /\ uuid_next <= MaxUuid
       /\ uuid_next' = uuid_next + 1
       /\ MemoryMessageBroker_messages' =
              broadcast_message_queues(MemoryMessageBroker_messages, message, post_ok)
       /\ conn_ret' = [op |-> "broadcast_message", message |-> message, sent |-> sent,
                       nodes |-> get_nodes(LocalNetwork),
                       sent_messages |->
                           IF sent.raised # NoneStr THEN sent.raised
                           ELSE ToString(Cardinality(sent.published \cup sent.posted))]
       /\ UNCHANGED <<MemoryMessageBroker_responses, gen, gen_yielded, inflight, est,
                      MemoryCache_routes, db_nodes, db_networks, resp_added,
                      outsideSend>>

\* request_route(network_id, target_node), called by the _establish_connection
\* task of target_node after a failed probe, up to the first wait of its
\* response generator
request_route(target_node, post_ok) ==
    LET message == RouteRequest_to_dict(uuid4(uuid_next), LocalNetwork,
                                        db_networks[LocalNetwork].instanceId,
                                        target_node)
        sent == broadcast_message_ends(message, post_ok)
        sent_count == Cardinality(sent.published \cup sent.posted)
        c == PendingCall("request_route", message.metadata.messageId, target_node,
                         sent.published \cup sent.posted, sent_count,
                         Len(gen_yielded))
    IN /\ gen.state # "running"
       /\ IF get_route(target_node) # None
          THEN /\ conn_ret' = [op |-> "request_route", node_id |-> target_node,
                               result |-> "True", sent |-> 0, responses |-> 0]
               /\ UNCHANGED <<MemoryMessageBroker_messages,
                              MemoryMessageBroker_responses, gen, gen_yielded,
                              uuid_next, inflight, est, MemoryCache_routes, db_nodes,
                              db_networks>>
          ELSE /\ uuid_next <= MaxUuid
               /\ uuid_next' = uuid_next + 1
               /\ MemoryMessageBroker_messages' =
                      broadcast_message_queues(MemoryMessageBroker_messages, message,
                                               post_ok)
               /\ IF sent.raised # NoneStr
                  THEN /\ conn_ret' = [op |-> "request_route", node_id |-> target_node,
                                       result |-> sent.raised, sent |-> sent_count,
                                       responses |-> 0]
                       /\ UNCHANGED <<MemoryMessageBroker_responses, gen, gen_yielded,
                                      inflight, est, MemoryCache_routes, db_nodes,
                                      db_networks>>
                  ELSE /\ GenPoll(c.message_id, sent_count, 0, 0, FALSE, 0)
                       /\ CallGoesOn(c, TRUE)
       /\ UNCHANGED <<resp_added, outsideSend>>

\* a contacted peer answers the message the waiting call sent: its response is
\* handed to add_to_response
ResponseArrives(responder, route) ==
    \E c \in inflight :
        LET response == RouteResponse_to_dict(c.message_id, LocalNetwork, responder,
                                              c.node_id, route)
        IN /\ gen.state = "running"
           /\ responder \in c.to
           /\ c.call # "request_route" => route = << >>
           /\ \A i \in 1..Len(resp_added[c.message_id]) :
                  resp_added[c.message_id][i].metadata.nodeId # responder
           /\ MemoryMessageBroker_responses' =
                  MemoryMessageBroker_add_to_response(MemoryMessageBroker_responses,
                                                      response)
           /\ resp_added' = [resp_added EXCEPT ![c.message_id] = Append(@, response)]
           /\ conn_ret' = [op |-> "add_to_response", node_id |-> responder]
           /\ UNCHANGED <<MemoryMessageBroker_messages, gen, gen_yielded, uuid_next,
                          inflight, est, MemoryCache_routes, db_nodes, db_networks,
                          outsideSend>>

\* the waiting generator wakes from asyncio.sleep(0.5): at a poll that may
\* find a response, or at the poll that ends the DRIVER_TIMEOUT
ResponseWake(timed_out) ==
    \E c \in inflight :
        /\ gen.state = "running"
        /\ GenPoll(gen.message_id, gen.message_count, gen.message_counter,
                   IF timed_out THEN DRIVER_TIMEOUT * 2 ELSE 1, timed_out, gen.seen)
        /\ CallGoesOn(c, FALSE)
        /\ UNCHANGED <<MemoryMessageBroker_messages, uuid_next, resp_added,
                       outsideSend>>

\* process_route_notification: whether the cached route of the target goes
\* (a variant that evicts whatever is cached, which the C20 check must reject)
route_notification_evicts_any(connected_route) ==
    connected_route # None

\* process_route_notification: whether the cached route of the target goes
route_notification_evicts(connected_route) ==
    connected_route # None /\ connected_route.connectivity_type = "PROXY"

\* process_route_notification(route_notification) for the target node
process_route_notification(target_node) ==
    /\ IF route_notification_evicts(get_route(target_node))
       THEN MemoryCache_routes' =
                MemoryCache_delete_route(MemoryCache_routes, target_node)
       ELSE UNCHANGED MemoryCache_routes
    /\ conn_ret' = [op |-> "process_route_notification", node_id |-> target_node,
                    route |-> get_route(target_node)]
    /\ UNCHANGED <<MemoryMessageBroker_messages, MemoryMessageBroker_responses, gen,
                   gen_yielded, uuid_next, inflight, est, db_nodes, db_networks,
                   resp_added, outsideSend>>

\* process_node_sync_message for a SyncNode message of `sender` that reports
\* new_node with data_index, up to the first wait of its response generator
process_node_sync_message(sender, new_node, data_index, post_ok) ==
    LET node_id == new_node.node_id
        message == NetworkMessage_to_dict("sync.request", uuid4(uuid_next),
                                          LocalNetwork, sender)
        ends == send_message_ends(message, node_id, post_ok)
        c == PendingCall("process_node_sync_message", message.metadata.messageId,
                         node_id, {node_id}, 1, Len(gen_yielded))
        quiet == <<MemoryMessageBroker_messages, MemoryMessageBroker_responses, gen,
                   gen_yielded, uuid_next, inflight>>
    IN /\ gen.state # "running"
       /\ IF node_id = db_networks[LocalNetwork].instanceId
          THEN /\ conn_ret' = [op |-> "process_node_sync_message", node_id |-> node_id,
                               reported |-> new_node, result |-> "skipped"]
               /\ UNCHANGED <<quiet, db_nodes, db_networks>>
          ELSE IF node_id \notin DOMAIN db_nodes
          THEN /\ db_nodes' = MemoryNetworkRepository_add_node_nodes(
                                  db_nodes, [new_node EXCEPT !.approved = FALSE])
               /\ db_networks' = MemoryNetworkRepository_add_node_networks(
                                     db_networks, db_nodes, LocalNetwork,
                                     [new_node EXCEPT !.approved = FALSE])
               /\ conn_ret' = [op |-> "process_node_sync_message", node_id |-> node_id,
                               reported |-> new_node, result |-> "added"]
               /\ UNCHANGED quiet
          ELSE IF Node_eq(Node_from_dict(db_nodes[node_id]), new_node)
          THEN /\ conn_ret' = [op |-> "process_node_sync_message", node_id |-> node_id,
                               reported |-> new_node, result |-> "equal"]
               /\ UNCHANGED <<quiet, db_nodes, db_networks>>
          ELSE IF node_id = sender
          THEN /\ db_nodes' =
                      [db_nodes EXCEPT ![node_id] =
                          with_data_index(
                              Node_to_dict(sync_merge(new_node,
                                                      Node_from_dict(db_nodes[node_id])),
                                           FALSE),
                              data_index)]
               /\ conn_ret' = [op |-> "process_node_sync_message", node_id |-> node_id,
                               reported |-> new_node, result |-> "updated"]
               /\ UNCHANGED <<quiet, db_networks>>
          ELSE /\ uuid_next <= MaxUuid
               /\ uuid_next' = uuid_next + 1
               /\ MemoryMessageBroker_messages' =
                      send_message_queues(MemoryMessageBroker_messages, message,
                                          node_id, post_ok)
               /\ IF ends \in {"published", "posted", "nothing"}
                  THEN /\ GenPoll(c.message_id, 1, 0, 0, FALSE, 0)
                       /\ inflight' = {c}
                       /\ conn_ret' = [op |-> "process_node_sync_message",
                                       node_id |-> node_id, reported |-> new_node,
                                       result |-> ends,
                                       message |-> message,
                                       posts |-> send_message_posts(message, node_id,
                                                                    post_ok)]
                  ELSE /\ conn_ret' = [op |-> "process_node_sync_message",
                                       node_id |-> node_id, reported |-> new_node,
                                       result |-> ends,
                                       message |-> message,
                                       posts |-> send_message_posts(message, node_id,
                                                                    post_ok)]
                       /\ UNCHANGED <<MemoryMessageBroker_responses, gen, gen_yielded,
                                      inflight>>
               /\ UNCHANGED <<db_nodes, db_networks>>
       /\ UNCHANGED <<est, MemoryCache_routes, resp_added, outsideSend>>

\* POST /service/message from `sender`, signed with signing_key: the message
\* is authenticated, and the request body (a dict, which is no CustomMessage)
\* is handed to process_network_message, which does nothing with it
handle_message(sender, signing_key) ==
    /\ conn_ret' = [op |-> "handle_message", node_id |-> sender,
                    result |-> authenticate_network_message(LocalNetwork, sender,
                                                            signing_key),
                    handed |-> authenticate_network_message(LocalNetwork, sender,
                                                            signing_key) = "True"]
    /\ UNCHANGED <<MemoryMessageBroker_messages, MemoryMessageBroker_responses, gen,
                   gen_yielded, uuid_next, inflight, est, MemoryCache_routes, db_nodes,
                   db_networks, resp_added, outsideSend>>

\* the chains a peer may answer a RouteRequest with
AnsweredRoutes(responder) == {<< >>, <<responder>>, <<responder, NewNode>>}

SendNext ==
    \/ \E message_type \in {CustomRequest, CustomResponse},
          target_node \in {"a", Unapproved, NoneStr},
          broadcast \in BOOLEAN, post_ok \in BOOLEAN :
            manage_send_message(message_type, target_node, broadcast, post_ok)
    \/ \E responder \in Nodes : ResponseArrives(responder, << >>)
    \/ \E timed_out \in BOOLEAN : ResponseWake(timed_out)
    \/ \E node_id \in {Unapproved}, post_ok \in BOOLEAN :
            process_node_sync_message("a", ReportedNode(node_id, FALSE), {}, post_ok)
    \/ \E sender \in {"a", Unapproved, Stranger}, signing_key \in SigningKeys :
            handle_message(sender, signing_key)
    \/ \E sender \in {"a", Unapproved, Stranger}, signing_key \in SigningKeys :
            InWsConnect(sender, signing_key)

SpecSend == SendInit /\ [][SendNext]_vars

\* route negotiation: request_route and its responses, the RouteNotification
\* handler, and the sends and broadcasts that meet the negotiated routes
RouteNext ==
    \/ \E target_node \in ApprovedNodes(LocalNetwork), post_ok \in BOOLEAN :
            request_route(target_node, post_ok)
    \/ \E responder \in Nodes : \E route \in AnsweredRoutes(responder) :
            ResponseArrives(responder, route)
    \/ \E timed_out \in BOOLEAN : ResponseWake(timed_out)
    \/ \E target_node \in Nodes : process_route_notification(target_node)
    \/ \E post_ok \in BOOLEAN : sync_known_nodes(post_ok)
    \/ \E target_node \in Nodes, post_ok \in BOOLEAN :
            manage_send_message(CustomRequest, target_node, FALSE, post_ok)

SpecRoute == SendInit /\ [][RouteNext]_vars

\* the route get_route(n) returns after the step (stores primed) and before it
RouteAfter(n) ==
    IF cache_driver = "memory"
    THEN MemoryCache_get_route(MemoryCache_routes', n)
    ELSE RedisCache_get_route(redis_route', n)

\* C3: the route cache holds at most one entry per node id; save_route replaces
\* the node's entry, so that get_route returns exactly the route saved last;
\* after delete_route(n) get_route(n) is empty; delete_route returns true iff
\* an entry existed; the entries of the other nodes are never affected.
C3_RouteCache ==
    [][/\ cache_ret'.op = "save_route"
            => /\ RouteAfter(cache_ret'.route.node_id) = cache_ret'.route
               /\ \A n \in Nodes \ {cache_ret'.route.node_id} :
                        RouteAfter(n) = get_route(n)
       /\ cache_ret'.op = "delete_route"
            => /\ RouteAfter(cache_ret'.node_id) = None
               /\ cache_ret'.ret = (get_route(cache_ret'.node_id) # None)
               /\ \A n \in Nodes \ {cache_ret'.node_id} :
                        RouteAfter(n) = get_route(n)
       /\ cache_ret'.op = "get_route"
            => /\ cache_ret'.ret = get_route(cache_ret'.node_id)
               /\ \A n \in Nodes : RouteAfter(n) = get_route(n)
       /\ Cardinality(DOMAIN MemoryCache_routes') <= Cardinality(Nodes)
       /\ Cardinality(DOMAIN redis_route') <= Cardinality(Nodes)]_vars

\* a delete that found an entry, with the other node's route still cached
C3_Witness ==
    /\ cache_ret.op = "delete_route"
    /\ cache_ret.ret = TRUE
    /\ \E n \in Nodes : n # cache_ret.node_id /\ get_route(n) # None

\* s is an initial segment of t
IsPrefix(s, t) == Len(s) <= Len(t) /\ SubSeq(t, 1, Len(s)) = s

\* C4: for every key, in either driver, get_message hands out the messages
\* published under the key in the order they were published.
C4_BrokerFifo == \A n \in Nodes : IsPrefix(delivered[n], published[n])

\* C5: response_generator(message_id, n) yields the responses add_to_response
\* was given for message_id, in the order they were given, and at most n of
\* them; it ends normally only with n yielded, raises only with fewer than n
\* yielded, and raises only when every response that had been given for
\* message_id when it last looked was yielded; it never yields a response
\* given for another message id.
C5_ResponseStream ==
    gen.state # "idle"
        => /\ IsPrefix(gen_yielded, resp_added[gen.message_id])
           /\ Len(gen_yielded) <= gen.message_count
           /\ (gen.state = "done" => Len(gen_yielded) = gen.message_count)
           /\ (gen.state = "raised"
                => /\ Len(gen_yielded) < gen.message_count
                   /\ Len(gen_yielded) = gen.seen)

\* a proxy chain to p has been negotiated: request_route saved a PROXY route
ProxyNegotiated(p) ==
    get_route(p) # None /\ get_route(p).connectivity_type = "PROXY"

\* C1: the route cache holds an entry for peer p iff a transport to p is live
\* or a proxy chain to p has been negotiated; so the establisher has no direct
\* route published while no transport is open, and a route stays while a
\* transport is live.
C1_RouteIffTransport ==
    \A p \in Nodes :
        (get_route(p) # None) <=> (LiveTransports(p) > 0 \/ ProxyNegotiated(p))

\* C2: at most one live transport and at most one running establisher task
\* exist per approved peer at any time.
C2_OneTransportOneTask ==
    \A p \in ApprovedNodes(LocalNetwork) :
        LiveTransports(p) <= 1 /\ RunningTasks(p) <= 1

\* C6: the status of an admission record changes at most once: a received or
\* sent record that is accepted or rejected keeps that status in every later
\* step, whatever is posted or decided for its message id.
C6_StatusChangesOnce ==
    [][/\ \A id \in DOMAIN db_receivedRequests :
            db_receivedRequests[id].status # AuthMessageStatus.PENDING
            => /\ id \in DOMAIN db_receivedRequests'
               /\ db_receivedRequests'[id].status = db_receivedRequests[id].status
       /\ \A id \in DOMAIN db_sentRequests :
            db_sentRequests[id].status # AuthMessageStatus.PENDING
            => /\ id \in DOMAIN db_sentRequests'
               /\ db_sentRequests'[id].status = db_sentRequests[id].status]_vars

\* C7: no state has a received record with status accepted whose sender is
\* not an approved node of the record's network in the local database.
C7_AcceptedIsMember ==
    \A id \in DOMAIN db_receivedRequests :
        db_receivedRequests[id].status = AuthMessageStatus.ACCEPTED
        => LET request == db_receivedRequests[id].request
           IN /\ request.metadata.networkId \in DOMAIN db_networks
              /\ request.node.nodeId \in ApprovedNodes(request.metadata.networkId)

\* C8: when POST /service/responses delivers an approving AuthRequestResponse
\* whose network matches, for a pending sent AuthRequest for network N, then
\* after the step N is stored with the instance id of the placeholder, the
\* responder is an approved node of N, the management key of N is stored, no
\* pending-N row is left, and the sent record is accepted.
C8_JoinCompletes ==
    [][\A id \in DOMAIN db_sentRequests, responder \in Nodes :
        (/\ db_sentRequests[id].status = AuthMessageStatus.PENDING
         /\ db_sentRequests[id].request.messageType = MessageType.AUTH_REQUEST
         /\ submit_response(id, MessageType.AUTH_REQUEST_RESPONSE, TRUE,
                            responder, "match"))
        => LET N == db_sentRequests[id].request.metadata.networkId
           IN /\ N \in DOMAIN db_networks'
              /\ PendingId(N) \in DOMAIN db_networks
              /\ db_networks'[N].instanceId = db_networks[PendingId(N)].instanceId
              /\ responder \in DOMAIN db_nodes'
              /\ db_nodes'[responder].approved
              /\ \E i \in 1..Len(db_networks'[N].nodeIds) :
                     db_networks'[N].nodeIds[i] = responder
              /\ N \in DOMAIN kms_network_management_keys'
              /\ PendingId(N) \notin DOMAIN db_networks'
              /\ db_sentRequests'[id].status = AuthMessageStatus.ACCEPTED]_vars

\* the challenge of a nonce is known and not yet expired
ChallengeLive(nonce) ==
    /\ nonce \in DOMAIN MemoryCache_challenges
    /\ now < MemoryCache_challenges[nonce].timestamp + CHALLENGE_TTL

C10_RequiresPolling ==
    [][/\ \A id \in DOMAIN db_sentRequests' \ DOMAIN db_sentRequests :
            /\ adm_ret'.op \in {"send_join_request", "send_join_invite"}
            /\ adm_ret'.message_id = id
            /\ db_sentRequests'[id].requiresPolling = (adm_ret'.reachable = FALSE)
            /\ db_sentRequests'[id].status = AuthMessageStatus.PENDING
       /\ \A id \in DOMAIN db_sentRequests :
            /\ id \in DOMAIN db_sentRequests'
            /\ db_sentRequests'[id].requiresPolling
                   = db_sentRequests[id].requiresPolling]_vars

\* a request stored with requiresPolling and an invite stored without
C10_Witness ==
    \E i, j \in DOMAIN db_sentRequests :
        /\ db_sentRequests[i].request.messageType = MessageType.AUTH_REQUEST
        /\ db_sentRequests[i].requiresPolling
        /\ db_sentRequests[j].request.messageType = MessageType.AUTH_INVITE
        /\ ~db_sentRequests[j].requiresPolling
        /\ adm_ret.op = "send_join_invite"
        /\ adm_ret.reachable

\* C11: when an outbound WebSocket errors or closes, the WebSocket is dialled
\* again at once; the fall-back to SSE comes only after 60 s without a
\* successful reconnection, never after a single failed attempt.  So no step
\* takes a task from an open WebSocket (or from its send loop) straight to the
\* SSE stage.
C11_WsRetriedBeforeSse ==
    [][\A p \in Nodes : \A from \in {"ws_open", "ws_send_loop"} :
            est'[p][from] < est[p][from]
                => est'[p]["sse_connecting"] <= est[p]["sse_connecting"]]_vars

\* C12: when both the WebSocket stage and the SSE stage have failed the task
\* goes on to the relay request; it ends (unreachable) only out of the probe
\* or the wait for the route responses, never out of the SSE stage.
C12_RelayAfterDirectFails ==
    [][\A p \in Nodes :
            RunningTasks(p)' < RunningTasks(p)
                => /\ est'[p]["sse_connecting"] = est[p]["sse_connecting"]
                   /\ est'[p]["sse_open"] = est[p]["sse_open"]]_vars

\* the step is a call of send_message(message, node): the targeted branch of
\* POST /manage/messages, or the SyncRequest of process_node_sync_message
SendMessageStep ==
    /\ conn_ret'.op \in {"manage_send_message", "process_node_sync_message"}
    /\ "posts" \in DOMAIN conn_ret'
    /\ conn_ret'.op = "manage_send_message" => ~conn_ret'.broadcast
    /\ uuid_next' # uuid_next

\* the signed envelope of the message the step sent
SentEnvelope ==
    SignedEnvelope(conn_ret'.message,
                   HcvKms_sign_payload(kms_network_node_keys,
                                       json_dumps(conn_ret'.message),
                                       LocalNetwork).value)

C14_ProxySendPublishesToFirstHop ==
    [][(/\ SendMessageStep
        /\ get_route(conn_ret'.node_id) # None
        /\ get_route(conn_ret'.node_id).connectivity_type = "PROXY")
        => LET first_hop == get_route(conn_ret'.node_id).proxy_nodes[1]
           IN Len(QueueOf(MemoryMessageBroker_messages', first_hop)) =
                  Len(QueueOf(MemoryMessageBroker_messages, first_hop)) + 1
      ]_vars

\* C15: broadcast_message attempts a send to every approved node of the
\* message's network and to no unapproved node, ignores per-peer failures (a
\* failure for one peer, whatever its route kind, never prevents the sends to
\* the remaining peers nor aborts the broadcast), and returns exactly the
\* number of sends that succeeded.
C15_BroadcastIgnoresPeerFailures ==
    [][(conn_ret'.op = "broadcast_message" /\ uuid_next' # uuid_next)
        => LET sent == conn_ret'.sent
           IN /\ sent.raised = NoneStr
              /\ sent.published \cup sent.posted \cup sent.failed =
                     ApprovedNodes(LocalNetwork)
              /\ conn_ret'.sent_messages =
                     ToString(Cardinality(sent.published \cup sent.posted))
      ]_vars

\* the step ends a call of request_route for a target without a cached route
RequestRouteEnds ==
    /\ conn_ret'.op = "request_route"
    /\ conn_ret'.result # "waiting"
    /\ get_route(conn_ret'.node_id) = None

\* C19: request_route(network, target): returns true without broadcasting
\* when a route to target is already cached; otherwise it broadcasts a
\* RouteRequest, picks among the collected responses a non-empty chain of
\* minimal length and saves Route{proxy, transport and outbound of the first
\* hop's route, proxy_chain}, returning true; it returns false -- without
\* raising and without changing the route cache -- when no response carries a
\* non-empty chain, including when fewer peers answer than were contacted or
\* no peer is connected.
C19_RequestRouteTrueOrFalse ==
    [][/\ (/\ conn_ret'.op = "request_route"
           /\ conn_ret'.result # "waiting"
           /\ get_route(conn_ret'.node_id) # None
           /\ inflight = {})
            => /\ conn_ret'.result = "True"
               /\ MemoryMessageBroker_messages' = MemoryMessageBroker_messages
               /\ MemoryCache_routes' = MemoryCache_routes
       /\ RequestRouteEnds
            => LET target == conn_ret'.node_id
                   chains == {gen_yielded'[i].route :
                                 i \in {j \in DOMAIN gen_yielded' :
                                          /\ \E c \in inflight :
                                                 gen_yielded'[j].metadata.messageId =
                                                     c.message_id
                                          /\ gen_yielded'[j].route # << >>}}
               IN IF chains = {}
                  THEN /\ conn_ret'.result = "False"
                       /\ MemoryCache_routes' = MemoryCache_routes
                  ELSE /\ conn_ret'.result = "True"
                       /\ RouteAfter(target) # None
                       /\ RouteAfter(target).connectivity_type = "PROXY"
                       /\ RouteAfter(target).proxy_nodes \in chains
                       /\ \A chain \in chains :
                              Len(RouteAfter(target).proxy_nodes) <= Len(chain)
                       /\ LET first == get_route(RouteAfter(target).proxy_nodes[1])
                          IN /\ first # None
                             /\ RouteAfter(target).transport_type = first.transport_type
                             /\ RouteAfter(target).outbound = first.outbound
      ]_vars

IsApproved(node_id) == node_id \in DOMAIN db_nodes /\ db_nodes[node_id].approved

C17_BroadcastWithoutTargetNode ==
    [][(/\ conn_ret'.op = "manage_send_message"
        /\ "broadcast" \in DOMAIN conn_ret'
        /\ conn_ret'.broadcast
        /\ conn_ret'.node_id = NoneStr)
        => /\ conn_ret'.result = "sent"
           /\ conn_ret'.deliveredCount = Cardinality(conn_ret'.to)
           /\ \A n \in conn_ret'.to : IsApproved(n) /\ get_route(n) # None
           /\ \A n \in conn_ret'.to :
                  Len(QueueOf(MemoryMessageBroker_messages', n))
                      >= Len(QueueOf(MemoryMessageBroker_messages, n))
      ]_vars

\* C18: a custom message whose registry configuration has `preceding` set is
\* a response-only type: POST /manage/messages never originates it -- for
\* such a message nothing is sent, broadcast or enqueued.
C18_ResponseOnlyNotOriginated ==
    [][(/\ conn_ret'.op = "manage_send_message"
        /\ "message_type" \in DOMAIN conn_ret'
        /\ Configurations[conn_ret'.message_type].preceding # NoneStr)
        => /\ conn_ret'.to = {}
           /\ conn_ret'.posts = {}
           /\ MemoryMessageBroker_messages' = MemoryMessageBroker_messages
      ]_vars

(***************************************************************************)
(* The key material of the admission messages: view/service.py             *)
(* get_request_status next to process_join_request and send_join_invite,   *)
(* in networks with and without a central node                             *)
(***************************************************************************)
\* the AuthInviteResponse the polling endpoint makes for an accepted invite
AuthInviteResponse_polled(message_id, network) ==
    [messageType |-> MessageType.AUTH_INVITE_RESPONSE,
     metadata |-> [messageId |-> message_id, networkId |-> network.networkId,
                   nodeId |-> network.instanceId],
     approved |-> TRUE,
     node |-> Node_to_dict(SelfNode(network), TRUE),
     justification |->
         "Invitation accepted, response generated automatically upon polling."]

\* what POST /service/requests/<request_id> returns for a stored record whose
\* signature was found good
get_request_status_body(request_id) ==
    LET record == db_receivedRequests[request_id]
        network == db_networks[record.request.metadata.networkId]
    IN IF record.status # AuthMessageStatus.ACCEPTED
       THEN [status |-> record.status]
       ELSE IF record.request.messageType = MessageType.AUTH_REQUEST
       THEN [status |-> record.status,
             response |->
                 AuthRequestResponse_to_dict(
                     request_id, network, SelfNode(network),
                     "Request accepted, response generated automatically upon polling.",
                     [publicKey |->
                          kms_network_management_keys[network.networkId].publicKey])]
       ELSE [status |-> record.status,
             response |-> AuthInviteResponse_polled(request_id, network)]

\* POST /service/requests/<request_id> of a poller that signs with the private
\* half of signing_key (None: no Message-Signature header); has_fields: the
\* body has messageId and challenge.  The signature is verified against the
\* public key of the node of the stored request.
get_request_status(request_id, has_fields, signing_key) ==
    LET stored == Node_from_dict(db_receivedRequests[request_id].request.node)
        verified == verify_signature(stored.public_key, signing_key)
        answer ==
            IF ~has_fields
            THEN Answer("get_request_status", 400,
                        "Missing messageId or challenge in request data.")
            ELSE IF signing_key = NoneStr
            THEN Answer("get_request_status", 403,
                        "No signature provided in request headers.")
            ELSE IF request_id \notin DOMAIN db_receivedRequests
            THEN Answer("get_request_status", 404, "Request not found.")
            ELSE IF verified = "AttributeError"
            THEN Answer("get_request_status", 500, "AttributeError")
            ELSE IF verified = "False"
            THEN Answer("get_request_status", 403,
                        IF db_receivedRequests[request_id].request.messageType
                               = MessageType.AUTH_REQUEST
                        THEN "Invalid signature for auth request."
                        ELSE "Invalid signature for auth invite.")
            ELSE Answer("get_request_status", 200, "")
                 @@ [body |-> get_request_status_body(request_id)]
    IN /\ adm_ret' = answer @@ [request_id |-> request_id,
                                signing_key |-> signing_key]
       /\ UNCHANGED <<outsideAdm, dbVars, connVars, msgVars, kmsVars,
                      MemoryCache_challenges, now, uuid_next, inflight>>

\* who may be the central node of n1: nobody, this gateway, the peer a
CentralNodes == {NoneStr, "self", "a"}

\* the start of the admission runs, with n1 decentralised or centralised
KeysInit ==
    /\ cache_driver = "memory"
    /\ MemoryCache_routes = << >>
    /\ redis_route = << >>
    /\ cache_ret = [op |-> "none"]
    /\ BrokerIdle
    /\ ConnIdle
    /\ \E central_node \in CentralNodes :
          db_networks = ("n1" :> Network_to_dict(
                                     [NetworkInfo("n1", "self")
                                         EXCEPT !.node_ids = <<"a">>,
                                                !.central_node = central_node]))
    /\ db_nodes = ("a" :> StoredNode("a", TRUE))
    /\ db_receivedRequests = << >>
    /\ db_sentRequests = << >>
    /\ kms_network_node_keys = MemoryKms_generate_network_node_key(<< >>, "n1")
    /\ kms_network_management_keys =
           MemoryKms_store_network_management_key(<< >>, "mgmt_pub_n1", "n1",
                                                  "mgmt_priv_n1")
    /\ kms_driver = "vault"
    /\ MemoryCache_challenges = << >>
    /\ now = 0
    /\ uuid_next = 1
    /\ inflight = {}
    /\ adm_ret = NoRet

\* a peer asks to join or invites, the operator decides and invites, and the
\* peer polls for the decision
KeysNext ==
    \/ get_challenge
    \/ \E message_type \in {MessageType.AUTH_REQUEST, MessageType.AUTH_INVITE},
          message_id \in ReceivedIds, network_id \in AdmNetworks,
          nonce \in DOMAIN MemoryCache_challenges :
          submit_request(message_type, message_id, network_id, "b", KeyOf("b"),
                         KeyOf("b"), nonce, solve(nonce))
    \/ \E request_id \in ReceivedIds, approve \in BOOLEAN :
          respond_to_request(request_id, approve)
    \/ \E c \in inflight, post_ok \in BOOLEAN : process_join_posted(c, post_ok)
    \/ \E network_id \in AdmNetworks : send_join_invite(network_id)
    \/ \E c \in inflight : send_join_failed(c)
    \/ \E c \in inflight, join_response \in Replies :
          send_join_posted(c, join_response)
    \/ \E request_id \in ReceivedIds \cup {"unknown"}, has_fields \in BOOLEAN,
          signing_key \in {KeyOf("b"), KeyOf("a"), NoneStr} :
          get_request_status(request_id, has_fields, signing_key)

SpecKeys == KeysInit /\ [][KeysNext]_vars

\* C21: a poll of an accepted join request, signed by the requester, is
\* answered with the response the decision pushes: while the push of the
\* approval is under way the polled response has the same network, the same
\* responder node and the same management key, the private key included when
\* the network has no central node
C21_PolledResponseIsPushedResponse ==
    \A c \in inflight :
        (/\ c.call = "process_join_request"
         /\ c.approve
         /\ adm_ret.op = "get_request_status"
         /\ adm_ret.request_id = c.message_id
         /\ adm_ret.signing_key = KeyOf(c.node_id))
        => /\ adm_ret.code = 200
           /\ adm_ret.body.status = AuthMessageStatus.ACCEPTED
           /\ adm_ret.body.response.node = c.message.node
           /\ adm_ret.body.response.managementKey = c.message.managementKey
           /\ [adm_ret.body.response.network EXCEPT !.nodeIds = << >>]
                  = [c.message.network EXCEPT !.nodeIds = << >>]

ScheduledJobs == {"establish_all_connections", "sync_all_nodes", "sync_all_index"}

\* the nodes establish_all_connections starts a connection task for: the
\* approved nodes of every network that have no route in the cache
NodesToConnect ==
    UNION {{p \in ApprovedNodes(n) : get_route(p) = None} : n \in DOMAIN db_networks}

\* one run of a scheduled job.  establish_all_connections starts the tasks;
\* sync_all_nodes and sync_all_index broadcast in every network, to the peers
\* that have a route (none has one on a gateway without peers).  No job reads
\* the sent admission records.
scheduled_job(job) ==
    /\ IF job = "establish_all_connections"
       THEN est' = [p \in Nodes |->
                       IF p \in NodesToConnect
                       THEN [est[p] EXCEPT !["probing"] = @ + 1]
                       ELSE est[p]]
       ELSE UNCHANGED est
    /\ conn_ret' = [op |-> job, networks |-> DOMAIN db_networks]
    /\ UNCHANGED <<cacheVars, brokerVars, dbVars, admVars>>

\* a gateway with the network n1 it made and no peer yet: it asks to join
\* n2 and invites into n1, and cannot be reached from outside
PollInit ==
    /\ cache_driver = "memory"
    /\ MemoryCache_routes = << >>
    /\ redis_route = << >>
    /\ cache_ret = [op |-> "none"]
    /\ BrokerIdle
    /\ ConnIdle
    /\ db_networks = ("n1" :> Network_to_dict(NetworkInfo("n1", "self")))
    /\ db_nodes = << >>
    /\ db_receivedRequests = << >>
    /\ db_sentRequests = << >>
    /\ kms_network_node_keys = MemoryKms_generate_network_node_key(<< >>, "n1")
    /\ kms_network_management_keys =
           MemoryKms_store_network_management_key(<< >>, "mgmt_pub_n1", "n1",
                                                  "mgmt_priv_n1")
    /\ kms_driver = "vault"
    /\ MemoryCache_challenges = << >>
    /\ now = 0
    /\ uuid_next = 1
    /\ inflight = {}
    /\ adm_ret = NoRet

PollNext ==
    \/ \E network_id \in AdmNetworks, listed \in BOOLEAN :
          send_join_request(network_id, listed)
    \/ \E network_id \in AdmNetworks : send_join_invite(network_id)
    \/ \E c \in inflight : send_join_failed(c)
    \/ \E c \in inflight, join_response \in Replies :
          send_join_posted(c, join_response)
    \/ \E job \in ScheduledJobs : scheduled_job(job)

\* the scheduler runs each of its interval jobs again and again
SpecPoll ==
    /\ PollInit
    /\ [][PollNext]_vars
    /\ \A job \in ScheduledJobs : WF_vars(scheduled_job(job))

\* C22: a sent admission record stored with requires_polling = true does not
\* stay pending for ever: the local side polls the target for it, and the
\* record reaches a terminal status (the remote operator decides at some
\* time; the local side has to ask to learn of it)
C22_PolledRecordGetsDecided ==
    \A id \in {uuid4(n) : n \in 1..MaxUuid} :
        (/\ id \in DOMAIN db_sentRequests
         /\ db_sentRequests[id].requiresPolling
         /\ db_sentRequests[id].status = AuthMessageStatus.PENDING)
        ~> (/\ id \in DOMAIN db_sentRequests
            /\ db_sentRequests[id].status # AuthMessageStatus.PENDING)

(***************************************************************************)
(* model/network_interface/sync_interface.py: the receiving side of the    *)
(* node and data index synchronisation                                     *)
(***************************************************************************)
\* a node as a SyncNode message of sync_known_nodes reports it: the approval
\* is stripped; changed: the node has moved to another URL; has_key: the
\* report carries the public key (the sender's own node does, the nodes it
\* read from its database do not)
StrippedNode(node_id, changed, has_key) ==
    Node(node_id,
         IF changed THEN "http://" \o node_id \o "/new" ELSE "http://" \o node_id,
         IF has_key THEN KeyOf(node_id) ELSE NoneStr,
         FALSE)

\* process_data_index_sync_message: the data index of the sender's node is
\* replaced; db.nodes.get gives None for a sender that is not stored
process_data_index_sync_message(sender, data_index) ==
    /\ gen.state # "running"
    /\ IF sender \notin DOMAIN db_nodes
       THEN /\ conn_ret' = [op |-> "process_data_index_sync_message",
                            node_id |-> sender, result |-> "AttributeError"]
            /\ UNCHANGED db_nodes
       ELSE /\ db_nodes' =
                   [db_nodes EXCEPT ![sender] =
                       with_data_index(
                           Node_to_dict(Node_from_dict(db_nodes[sender]), FALSE),
                           data_index)]
            /\ conn_ret' = [op |-> "process_data_index_sync_message",
                            node_id |-> sender, result |-> "updated"]
    /\ UNCHANGED <<MemoryMessageBroker_messages, MemoryMessageBroker_responses, gen,
                   gen_yielded, uuid_next, inflight, est, MemoryCache_routes,
                   db_networks, resp_added, outsideSend>>

\* the peers send SyncNode and SyncIndex messages, and a node that was asked
\* for its own data answers or stays silent
SyncNext ==
    \/ \E sender \in {"a", "b"},
          node_id \in {"a", Unapproved, NewNode, "self"},
          changed \in BOOLEAN, has_key \in BOOLEAN, data_index \in DataIndexes,
          post_ok \in BOOLEAN :
            process_node_sync_message(sender, StrippedNode(node_id, changed, has_key),
                                      data_index, post_ok)
    \/ \E sender \in {"a", Stranger}, data_index \in DataIndexes :
            process_data_index_sync_message(sender, data_index)
    \/ \E responder \in Nodes : ResponseArrives(responder, << >>)
    \/ \E timed_out \in BOOLEAN : ResponseWake(timed_out)

SpecSync == SendInit /\ [][SyncNext]_vars

\* the step is process_node_sync_message for a report of node_id
SyncNodeStep(node_id) ==
    /\ conn_ret'.op = "process_node_sync_message"
    /\ conn_ret'.node_id = node_id
    /\ inflight = {}
    /\ conn_ret' # conn_ret \/ db_nodes' # db_nodes

\* C24: a SyncNode report of the local instance is skipped; a report of a
\* node that is not known is stored unapproved, with no data index, and its
\* id is appended to the node ids of the network; a report of a known node
\* that has not changed, as sync_known_nodes sends it (approval and data
\* index stripped), leaves the repositories alone and sends nothing
C24_SyncNodeReceipt ==
    [][\A node_id \in {"a", Unapproved, NewNode, "self"} :
          SyncNodeStep(node_id)
          => /\ node_id = db_networks[LocalNetwork].instanceId
                => /\ conn_ret'.result = "skipped"
                   /\ UNCHANGED <<db_nodes, db_networks>>
             /\ conn_ret'.result = "added"
                => /\ node_id \notin DOMAIN db_nodes
                   /\ ~db_nodes'[node_id].approved
                   /\ data_index_of(db_nodes'[node_id]) = {}
                   /\ db_networks'[LocalNetwork].nodeIds
                          = Append(db_networks[LocalNetwork].nodeIds, node_id)
             /\ (/\ node_id \in DOMAIN db_nodes
                 /\ conn_ret'.reported
                        = [Node_from_dict(db_nodes[node_id]) EXCEPT !.approved = FALSE])
                => /\ UNCHANGED <<db_nodes, db_networks, MemoryMessageBroker_messages,
                                  inflight>>
                   /\ conn_ret'.result = "equal"]_vars

TicksPerSecond == 2
\* the ticks in the lifetime of a challenge
TtlTicks == CHALLENGE_TTL * TicksPerSecond
\* how many single ticks the clock makes between its long steps
MaxSmallSteps == 2
\* how many long steps the clock makes
MaxLongSteps == 2
\* a long step of the clock: half a second short of the lifetime
LongStep == TtlTicks - 1

\* int(time.time()) at tick t, in ticks: the fraction is cut off
int_time(t) == (t \div TicksPerSecond) * TicksPerSecond

\* what get_challenge returned: an int, a string, or None
IntValue(n) == [int |-> n]
StrValue(text) == [str |-> text]

\* MemoryCache.get_challenge at tick t, for a challenge saved with its
\* timestamp in ticks: timestamp + 300 > int(time.time())
MemoryCache_get_challenge_at(challenges, nonce, t) ==
    IF nonce \in DOMAIN challenges
       /\ challenges[nonce].timestamp + TtlTicks > int_time(t)
    THEN IntValue(challenges[nonce].difficulty)
    ELSE None

\* RedisCache.save_challenge at tick t: SET challenge:<nonce> <difficulty>
\* EX 300; Redis stores the number as a string
RedisCache_save_challenge(db, nonce, difficulty, t) ==
    (<<"challenge", nonce>> :>
        [value |-> ToString(difficulty), expire_at |-> t + TtlTicks]) @@ db

\* RedisCache.get_challenge at tick t: GET challenge:<nonce> gives the stored
\* string until the key expires
RedisCache_get_challenge(db, nonce, t) ==
    IF <<"challenge", nonce>> \in DOMAIN db /\ t < db[<<"challenge", nonce>>].expire_at
    THEN StrValue(db[<<"challenge", nonce>>].value)
    ELSE None

\* the nonces and difficulties the cache is exercised with
TtlNonces == {"c1", "c2"}
TtlDifficulties == {challenge_difficulty}

outsideTtl == <<MemoryCache_routes, brokerVars, dbVars, connVars, msgVars, kmsVars,
                uuid_next, inflight, adm_ret>>

TtlInit ==
    /\ cache_driver \in {"memory", "redis"}
    /\ MemoryCache_routes = << >>
    /\ redis_route = << >>
    /\ cache_ret = [op |-> "none"]
    /\ BrokerIdle
    /\ DbIdle
    /\ ConnIdle
    /\ AdmIdle

\* Cache.save_challenge(nonce, difficulty)
TtlSave(nonce, difficulty) ==
    /\ IF cache_driver = "memory"
       THEN /\ MemoryCache_challenges' =
                   MemoryCache_save_challenge(MemoryCache_challenges, nonce,
                                              difficulty, now)
            /\ UNCHANGED redis_route
       ELSE /\ redis_route' = RedisCache_save_challenge(redis_route, nonce,
                                                        difficulty, now)
            /\ UNCHANGED MemoryCache_challenges
    /\ cache_ret' = [op |-> "save_challenge", nonce |-> nonce,
                     difficulty |-> difficulty, at |-> now]
    /\ UNCHANGED <<cache_driver, now, outsideTtl>>

\* Cache.get_challenge(nonce).  The answer keeps what was saved last under
\* the nonce and when.
TtlGet(nonce) ==
    /\ cache_ret' =
           [op |-> "get_challenge", nonce |-> nonce, at |-> now,
            ret |-> IF cache_driver = "memory"
                    THEN MemoryCache_get_challenge_at(MemoryCache_challenges,
                                                      nonce, now)
                    ELSE RedisCache_get_challenge(redis_route, nonce, now),
            saved |-> IF cache_driver = "memory"
                      THEN IF nonce \in DOMAIN MemoryCache_challenges
                           THEN [difficulty |-> MemoryCache_challenges[nonce].difficulty,
                                 at |-> MemoryCache_challenges[nonce].timestamp]
                           ELSE None
                      ELSE IF <<"challenge", nonce>> \in DOMAIN redis_route
                           THEN [difficulty |-> challenge_difficulty,
                                 at |-> redis_route[<<"challenge", nonce>>].expire_at
                                            - TtlTicks]
                           ELSE None]
    /\ UNCHANGED <<cache_driver, redis_route, MemoryCache_challenges, now, outsideTtl>>

\* time passes: half a second, or just under the lifetime of a challenge
TtlTick(long) ==
    /\ IF long
       THEN /\ now < MaxLongSteps * LongStep
            /\ now' = now + LongStep
       ELSE /\ now % LongStep < MaxSmallSteps
            /\ now' = now + 1
    /\ UNCHANGED <<cacheVars, MemoryCache_challenges, outsideTtl>>

TtlNext ==
    \/ \E nonce \in {"c1"}, difficulty \in TtlDifficulties : TtlSave(nonce, difficulty)
    \/ \E nonce \in TtlNonces : TtlGet(nonce)
    \/ \E long \in BOOLEAN : TtlTick(long)

SpecTtl == TtlInit /\ [][TtlNext]_vars

\* C26: get_challenge returns the difficulty that save_challenge stored under
\* the nonce exactly while less than 300 s have passed since the save; for a
\* nonce nothing was saved under, and from 300 s after the save on, it
\* returns None
C26_ChallengeLifetime ==
    cache_ret.op = "get_challenge"
    => IF cache_ret.saved # None /\ cache_ret.at - cache_ret.saved.at < TtlTicks
       THEN cache_ret.ret = IntValue(cache_ret.saved.difficulty)
       ELSE cache_ret.ret = None

(***************************************************************************)
(* kms/kms.py, kms/memory.py, kms/hashicorp_vault.py: the node keys of the *)
(* networks, signing and verifying                                         *)
(***************************************************************************)
\* the n-th key pair _generate_rsa_key_pair() makes: every call makes a new one
RsaKeyPair(n) ==
    [privateKey |-> "priv_" \o ToString(n), publicKey |-> "pub_" \o ToString(n)]

\* MemoryKms.generate_network_node_key with the pair it generated: the entry
\* of the network is replaced by the new pair
MemoryKms_generate_network_node_key_pair(keys, network_id, pair) ==
    (network_id :> [privateKey |-> pair.privateKey, publicKey |-> pair.publicKey])
    @@ keys

\* MemoryKms.get_network_node_public_key(network_id, previous_version)
MemoryKms_get_network_node_public_key(keys, network_id, previous_version) ==
    IF network_id \notin DOMAIN keys THEN Raised("KmsKeyManagementException")
    ELSE IF previous_version
    THEN IF "previousKey" \notin DOMAIN keys[network_id]
         THEN Raised("KmsKeyManagementException")
         ELSE Returned(keys[network_id].previousKey.publicKey)
    ELSE Returned(keys[network_id].publicKey)

\* HcvKms.get_network_node_public_key for a transit key with one version: the
\* version before the first does not exist
HcvKms_get_network_node_public_key(keys, network_id, previous_version) ==
    IF network_id \notin DOMAIN keys \/ previous_version
    THEN Raised("KmsKeyManagementException")
    ELSE Returned(keys[network_id].publicKey)

get_network_node_public_key(network_id, previous_version) ==
    IF kms_driver = "memory"
    THEN MemoryKms_get_network_node_public_key(kms_network_node_keys, network_id,
                                               previous_version)
    ELSE HcvKms_get_network_node_public_key(kms_network_node_keys, network_id,
                                            previous_version)

\* Kms.verify_signature(payload, public_pem, signature): the key is loaded
\* (public_pem.encode() fails on None), and InvalidSignature gives False
Kms_verify_signature(payload, public_pem, signature) ==
    IF public_pem = NoneStr THEN Raised("AttributeError")
    ELSE Returned(signature.key = public_pem /\ signature.signed = payload)

\* the payloads and networks the KMS is exercised with
Payloads == {"p1", "p2"}
KmsNetworks == {"n1", "n2"}

outsideKms == <<cacheVars, brokerVars, dbVars, connVars, msgVars,
                kms_network_management_keys, kms_driver, MemoryCache_challenges, now,
                inflight>>

\* the memory KMS starts empty; the transit engine of Vault has the keys
\* network-n1 and network-n2
KmsInit ==
    /\ cache_driver = "memory"
    /\ MemoryCache_routes = << >>
    /\ redis_route = << >>
    /\ cache_ret = [op |-> "none"]
    /\ BrokerIdle
    /\ DbIdle
    /\ ConnIdle
    /\ db_receivedRequests = << >>
    /\ db_sentRequests = << >>
    /\ kms_driver \in KmsDrivers
    /\ kms_network_node_keys =
           IF kms_driver = "memory" THEN << >>
           ELSE [n \in KmsNetworks |->
                   IF n = "n1" THEN RsaKeyPair(11) ELSE RsaKeyPair(12)]
    /\ kms_network_management_keys = << >>
    /\ MemoryCache_challenges = << >>
    /\ now = 0
    /\ uuid_next = 1
    /\ inflight = {}
    /\ adm_ret = NoRet

\* MemoryKms.generate_network_node_key(network_id); uuid_next counts the key
\* pairs that were generated
KmsGenerate(network_id) ==
    /\ kms_driver = "memory"
    /\ uuid_next <= MaxKeys
    /\ uuid_next' = uuid_next + 1
    /\ kms_network_node_keys' =
           MemoryKms_generate_network_node_key_pair(kms_network_node_keys,
                                                    network_id, RsaKeyPair(uuid_next))
    /\ adm_ret' = [op |-> "generate_network_node_key", network_id |-> network_id,
                   ret |-> Returned(RsaKeyPair(uuid_next).publicKey)]
    /\ UNCHANGED outsideKms

\* get_network_node_public_key(network_id, previous_version)
KmsGetPublicKey(network_id, previous_version) ==
    /\ adm_ret' = [op |-> "get_network_node_public_key", network_id |-> network_id,
                   previous_version |-> previous_version,
                   ret |-> get_network_node_public_key(network_id, previous_version)]
    /\ UNCHANGED <<outsideKms, kms_network_node_keys, uuid_next>>

\* sign_payload(payload, network_id)
KmsSign(payload, network_id) ==
    /\ adm_ret' = [op |-> "sign_payload", network_id |-> network_id,
                   payload |-> payload, ret |-> sign_payload(payload, network_id)]
    /\ UNCHANGED <<outsideKms, kms_network_node_keys, uuid_next>>

\* verify_signature(payload, public key of network_id, signature) for the
\* signature sign_payload has just returned
KmsVerify(payload, network_id) ==
    LET public_pem == get_network_node_public_key(network_id, FALSE)
    IN /\ adm_ret.op = "sign_payload"
       /\ ~IsRaised(adm_ret.ret)
       /\ ~IsRaised(public_pem)
       /\ adm_ret' = [op |-> "verify_signature", payload |-> payload,
                      network_id |-> network_id,
                      signed_payload |-> adm_ret.payload,
                      signed_for |-> adm_ret.network_id,
                      ret |-> Kms_verify_signature(payload, public_pem.value,
                                                   adm_ret.ret.value)]
       /\ UNCHANGED <<outsideKms, kms_network_node_keys, uuid_next>>

KmsNext ==
    \/ \E network_id \in KmsNetworks : KmsGenerate(network_id)
    \/ \E network_id \in KmsNetworks, previous_version \in BOOLEAN :
          KmsGetPublicKey(network_id, previous_version)
    \/ \E payload \in Payloads, network_id \in KmsNetworks : KmsSign(payload, network_id)
    \/ \E payload \in Payloads, network_id \in KmsNetworks :
          KmsVerify(payload, network_id)

SpecKms == KmsInit /\ [][KmsNext]_vars

\* C27: generate_network_node_key for a network that has a node key rotates
\* the key: the call returns a public key that is not the old one, and the
\* old one is what get_network_node_public_key(network_id, previous) gives
\* afterwards
C27_NodeKeyRotation ==
    [][(/\ adm_ret'.op = "generate_network_node_key"
        /\ uuid_next' # uuid_next
        /\ adm_ret'.network_id \in DOMAIN kms_network_node_keys)
       => LET old == kms_network_node_keys[adm_ret'.network_id].publicKey
              previous ==
                  MemoryKms_get_network_node_public_key(
                      kms_network_node_keys', adm_ret'.network_id, TRUE)
          IN /\ adm_ret'.ret.value # old
             /\ MemoryKms_get_network_node_public_key(
                    kms_network_node_keys', adm_ret'.network_id, FALSE)
                    = adm_ret'.ret
             /\ previous = Returned(old)]_vars

\* C28: on either KMS driver sign_payload gives a signature for every
\* network that has a node key, and verify_signature is true for that
\* signature with the payload and the public key of the network, and false
\* (no exception) with another payload or the key of another network
C28_SignVerify ==
    /\ (/\ adm_ret.op = "sign_payload"
        /\ adm_ret.network_id \in DOMAIN kms_network_node_keys)
       => ~IsRaised(adm_ret.ret)
    /\ adm_ret.op = "verify_signature"
       => adm_ret.ret = Returned(/\ adm_ret.payload = adm_ret.signed_payload
                                 /\ adm_ret.network_id = adm_ret.signed_for)

(***************************************************************************)
(* The WebSocket loops: view/service.py service_websocket (the side that   *)
(* accepted the connection) and NetworkInterface._websocket_handler (the   *)
(* side that opened it)                                                    *)
(***************************************************************************)
\* asyncio.wait_for(pong_event.wait(), timeout=10)
PONG_TIMEOUT == 10

\* the clock of the WebSocket exercise moves in steps of half the timeout
WsClockStep == PONG_TIMEOUT \div 2
MaxWsTicks == 3

\* the exceptions a handler can end with
DediGatewayException(name, status_code) ==
    [kind |-> "DediGatewayException", name |-> name, status_code |-> status_code]
HTTPException(code) == [kind |-> "HTTPException", code |-> code]
OtherException(name) == [kind |-> "Exception", name |-> name]

\* etc/errors.py: the status code of the exceptions authentication raises
AuthException(name) ==
    IF name = "NodeNotApprovedException" THEN DediGatewayException(name, 403)
    ELSE IF name \in {"NodeNotFoundException", "NetworkNotFoundException"}
    THEN DediGatewayException(name, 404)
    ELSE OtherException(name)

\* exception_handler in a WebSocket context: the code the socket is closed with
websocket_close_code(e) ==
    IF e.kind = "DediGatewayException" THEN 4000 + e.status_code
    ELSE IF e.kind = "HTTPException" THEN 4000 + e.code
    ELSE 4500

\* send_loop of service_websocket: `except Exception: abort(500, ...)` turns
\* every exception of the loop body, abort(408) included, into HTTP 500
send_loop_raises(e) == HTTPException(500)

\* a service_websocket handler past its bootstrap: the node it serves, whether
\* pong_event is set, whether send_loop waits for the pong, and since when
WsServed(node_id, pong_event, waiting, pinged_at) ==
    [call |-> "service_websocket", node_id |-> node_id, pong_event |-> pong_event,
     waiting |-> waiting, pinged_at |-> pinged_at]

\* the frames a peer can send
WsFrames == {"invalid_json", "control", "message"}

\* a node document with or without publicKey
NodeDocument(node_id, approved, has_key) ==
    Node_to_dict(Node(node_id, "http://" \o node_id, "key_" \o node_id, approved),
                 has_key)

outsideWs ==
    <<cache_driver, cache_ret, MemoryMessageBroker_responses, redis_response, gen,
      gen_yielded, published, delivered, resp_added, next_serial, broker_ret,
      dbVars, msgVars, kmsVars, MemoryCache_challenges, uuid_next, adm_ret>>

\* network n1 with the approved nodes a and b and the unapproved node c; the
\* node documents of the database carry publicKey or do not; a WebSocket to
\* an approved node is open or is not
WsInit ==
    /\ cache_driver = "memory"
    /\ redis_route = << >>
    /\ cache_ret = [op |-> "none"]
    /\ BrokerIdle
    /\ conn_ret = NoRet
    /\ db_receivedRequests = << >>
    /\ db_sentRequests = << >>
    /\ kms_network_node_keys =
           (LocalNetwork :> [privateKey |-> "node_priv_" \o LocalNetwork,
                             publicKey |-> "node_pub_" \o LocalNetwork])
    /\ kms_network_management_keys = << >>
    /\ kms_driver = "vault"
    /\ MemoryCache_challenges = << >>
    /\ now = 0
    /\ uuid_next = 1
    /\ inflight = {}
    /\ adm_ret = NoRet
    /\ db_networks = (LocalNetwork :>
            Network_to_dict(Network(LocalNetwork, "net", "", <<"a", "b", Unapproved>>,
                                    TRUE, FALSE, "self", NoneStr)))
    /\ \E has_key \in BOOLEAN :
          db_nodes = ("a" :> NodeDocument("a", TRUE, has_key))
                     @@ ("b" :> NodeDocument("b", TRUE, has_key))
                     @@ (Unapproved :> NodeDocument(Unapproved, FALSE, has_key))
    /\ \E link \in [{"a", "b"} -> {"none", "websocket"}] :
          /\ MemoryCache_routes =
                 [p \in {q \in DOMAIN link : link[q] # "none"} |->
                     Route_to_dict(LinkRoute(p, link[p]))]
          /\ est = [p \in Nodes |->
                       IF p \in DOMAIN link THEN LinkTasks(link[p]) ELSE NoTasks]

\* service_websocket up to its loops: the bootstrap frame of sender, signed
\* with signing_key, is read and authenticated; the route is saved and the
\* loops start, or the handler ends and exception_handler closes the socket
service_websocket(frame, sender, signing_key) ==
    LET result == authenticate_network_message(LocalNetwork, sender, signing_key)
        raised == IF frame = "invalid_json" THEN HTTPException(400)
                  ELSE IF frame = "control" THEN OtherException("KeyError")
                  ELSE IF result = "False" THEN HTTPException(403)
                  ELSE AuthException(result)
    IN IF frame = "message" /\ result = "True"
       THEN /\ Cardinality(inflight) < MaxInflight
            /\ save_route(Route(LocalNetwork, sender, "DIRECT", "WEBSOCKET",
                                FALSE, << >>))
            /\ inflight' = inflight \cup {WsServed(sender, TRUE, FALSE, now)}
            /\ conn_ret' = [op |-> "service_websocket", node_id |-> sender,
                            result |-> "open"]
            /\ UNCHANGED <<MemoryMessageBroker_messages, redis_message, est, now,
                           outsideWs>>
       ELSE /\ conn_ret' = [op |-> "service_websocket", node_id |-> sender,
                            result |-> "closed", cause |-> "bootstrap",
                            raised |-> raised,
                            code |-> websocket_close_code(raised)]
            /\ UNCHANGED <<MemoryCache_routes, redis_route,
                           MemoryMessageBroker_messages, redis_message, est, now,
                           inflight, outsideWs>>

\* a message for the node is put into its queue
WsPublish(node_id) ==
    /\ MessageQueue(node_id) = << >>
    /\ publish_message(node_id, [message |-> [messageType |-> CustomRequest],
                                 signature |-> "signed"])
    /\ conn_ret' = NoRet
    /\ UNCHANGED <<MemoryCache_routes, redis_route, est, now, inflight, outsideWs>>

\* send_loop with nothing to send: pong_event is cleared, the ping is sent and
\* the loop waits for the pong
send_loop_ping(c) ==
    /\ c \in inflight
    /\ ~c.waiting
    /\ MessageQueue(c.node_id) = << >>
    /\ inflight' = (inflight \ {c}) \cup {WsServed(c.node_id, FALSE, TRUE, now)}
    /\ conn_ret' = [op |-> "send_loop", node_id |-> c.node_id, sent |-> "ping"]
    /\ UNCHANGED <<MemoryCache_routes, redis_route, MemoryMessageBroker_messages,
                   redis_message, est, now, outsideWs>>

\* send_loop with a message: it is sent once pong_event is set
send_loop_send(c) ==
    /\ c \in inflight
    /\ ~c.waiting
    /\ c.pong_event
    /\ MessageQueue(c.node_id) # << >>
    /\ take_message(c.node_id)
    /\ conn_ret' = [op |-> "send_loop", node_id |-> c.node_id, sent |-> "message"]
    /\ UNCHANGED <<MemoryCache_routes, redis_route, est, now, inflight, outsideWs>>

\* the wait for the pong ends because pong_event was set
send_loop_ponged(c) ==
    /\ c \in inflight
    /\ c.waiting
    /\ c.pong_event
    /\ inflight' = (inflight \ {c}) \cup {WsServed(c.node_id, TRUE, FALSE, c.pinged_at)}
    /\ conn_ret' = [op |-> "send_loop", node_id |-> c.node_id, sent |-> "nothing"]
    /\ UNCHANGED <<MemoryCache_routes, redis_route, MemoryMessageBroker_messages,
                   redis_message, est, now, outsideWs>>

\* the wait for the pong times out: the error frame is sent, abort(408) is
\* raised inside the try of the loop, gather ends with what the loop raised,
\* the route is deleted and exception_handler closes the socket
send_loop_timeout(c) ==
    LET raised == send_loop_raises(HTTPException(408))
    IN /\ c \in inflight
       /\ c.waiting
       /\ ~c.pong_event
       /\ now - c.pinged_at >= PONG_TIMEOUT
       /\ inflight' = inflight \ {c}
       /\ delete_route(c.node_id)
       /\ conn_ret' = [op |-> "service_websocket", node_id |-> c.node_id,
                       result |-> "closed", cause |-> "pong timeout",
                       raised |-> raised, code |-> websocket_close_code(raised)]
       /\ UNCHANGED <<MemoryMessageBroker_messages, redis_message, est, now,
                      outsideWs>>

\* websocket.send of send_loop fails on a connection the peer has dropped
send_loop_broken(c) ==
    LET raised == send_loop_raises(OtherException("ConnectionClosed"))
    IN /\ c \in inflight
       /\ ~c.waiting
       /\ inflight' = inflight \ {c}
       /\ delete_route(c.node_id)
       /\ conn_ret' = [op |-> "service_websocket", node_id |-> c.node_id,
                       result |-> "closed", cause |-> "send failed",
                       raised |-> raised, code |-> websocket_close_code(raised)]
       /\ UNCHANGED <<MemoryMessageBroker_messages, redis_message, est, now,
                      outsideWs>>

\* receive_loop of service_websocket: one frame of the peer. A pong sets
\* pong_event; a message of sender signed with signing_key is authenticated
\* and handed to process_network_message; every exception is answered with
\* an error frame and the loop goes on
service_receive_loop(c, frame, sender, signing_key) ==
    LET result == authenticate_network_message(LocalNetwork, sender, signing_key)
    IN /\ c \in inflight
       /\ inflight' = IF frame = "control"
                      THEN (inflight \ {c})
                           \cup {WsServed(c.node_id, TRUE, c.waiting, c.pinged_at)}
                      ELSE inflight
       /\ conn_ret' = [op |-> "receive_loop", side |-> "accepted",
                       node_id |-> c.node_id, frame |-> frame,
                       result |-> IF frame = "message" THEN result ELSE frame,
                       sent |-> IF frame = "control" THEN "nothing"
                                ELSE IF frame = "message" /\ result = "True"
                                THEN "nothing"
                                ELSE "error",
                       handed |-> (frame = "message" /\ result = "True")]
       /\ UNCHANGED <<MemoryCache_routes, redis_route, MemoryMessageBroker_messages,
                      redis_message, est, now, outsideWs>>

\* receive_loop of _websocket_handler: one frame of the peer p. A ping is
\* answered with a pong; a message of sender signed with signing_key is
\* authenticated and handed to process_network_message, or answered with an
\* error frame when authentication returns False; an exception ends the loop,
\* gather and the handler, the connection is closed and _establish_connection
\* falls back to SSE
websocket_receive_loop(p, frame, sender, signing_key) ==
    LET result == authenticate_network_message(LocalNetwork, sender, signing_key)
        raises == frame = "message" /\ result \notin {"True", "False"}
    IN /\ est[p]["ws_open"] > 0
       /\ IF raises
          THEN /\ save_route(Route(LocalNetwork, p, "DIRECT", "SSE", TRUE, << >>))
               /\ TaskMoves(p, "ws_open", "sse_connecting")
          ELSE UNCHANGED <<MemoryCache_routes, redis_route, est>>
       /\ conn_ret' = [op |-> "receive_loop", side |-> "opened",
                       node_id |-> p, frame |-> frame,
                       result |-> IF frame = "message" THEN result ELSE frame,
                       sent |-> IF frame = "control" THEN "pong"
                                ELSE IF frame = "invalid_json" THEN "error"
                                ELSE IF result = "False" THEN "error"
                                ELSE "nothing",
                       handed |-> (frame = "message" /\ result = "True")]
       /\ UNCHANGED <<MemoryMessageBroker_messages, redis_message, now, inflight,
                      outsideWs>>

\* time passes
WsTick ==
    /\ now < MaxWsTicks * WsClockStep
    /\ now' = now + WsClockStep
    /\ conn_ret' = NoRet
    /\ UNCHANGED <<MemoryCache_routes, redis_route, MemoryMessageBroker_messages,
                   redis_message, est, inflight, outsideWs>>

WsSenders == {"a", "b", Unapproved, Stranger}

WsNext ==
    \/ \E frame \in WsFrames, sender \in WsSenders, signing_key \in SigningKeys :
          service_websocket(frame, sender, signing_key)
    \/ \E node_id \in {"a"} : WsPublish(node_id)
    \/ \E c \in inflight : send_loop_ping(c)
    \/ \E c \in inflight : send_loop_send(c)
    \/ \E c \in inflight : send_loop_ponged(c)
    \/ \E c \in inflight : send_loop_timeout(c)
    \/ \E c \in inflight : send_loop_broken(c)
    \/ \E c \in inflight, frame \in WsFrames, sender \in WsSenders,
          signing_key \in SigningKeys :
             service_receive_loop(c, frame, sender, signing_key)
    \/ \E p \in {"a", "b"}, frame \in WsFrames, sender \in WsSenders,
          signing_key \in SigningKeys :
             websocket_receive_loop(p, frame, sender, signing_key)
    \/ WsTick

SpecWs == WsInit /\ [][WsNext]_vars

\* a message frame of the receive loop of either side fails authentication
FailedFrameStep(side, node_id) ==
    /\ conn_ret'.op = "receive_loop"
    /\ conn_ret'.side = side
    /\ conn_ret'.node_id = node_id
    /\ conn_ret'.frame = "message"
    /\ conn_ret'.result # "True"

\* C29: in the receive loop of an open WebSocket, on the side that accepted
\* the connection and on the side that opened it, a message frame that fails
\* authentication (bad signature, unknown sender, unapproved sender) is
\* answered with an error frame, is not processed, and the connection stays
\* open
C29_FailedFrameKeepsConnection ==
    [][/\ \A c \in inflight :
            FailedFrameStep("accepted", c.node_id)
            => /\ conn_ret'.sent = "error"
               /\ ~conn_ret'.handed
               /\ c \in inflight'
       /\ \A p \in {"a", "b"} :
            (est[p]["ws_open"] > 0 /\ FailedFrameStep("opened", p))
            => /\ conn_ret'.sent = "error"
               /\ ~conn_ret'.handed
               /\ est'[p]["ws_open"] = est[p]["ws_open"]]_vars

\* C30: a served WebSocket whose peer did not answer the ping within
\* PONG_TIMEOUT is closed with code 4408; a handler that ends with an HTTP
\* error or a gateway exception closes with 4000 + its status, and one that
\* ends with any other exception with 4500
C30_CloseCodes ==
    (conn_ret.op = "service_websocket" /\ conn_ret.result = "closed")
    => IF conn_ret.cause = "pong timeout" THEN conn_ret.code = 4408
       ELSE IF conn_ret.raised.kind = "HTTPException"
       THEN conn_ret.code = 4000 + conn_ret.raised.code
       ELSE IF conn_ret.raised.kind = "DediGatewayException"
       THEN conn_ret.code = 4000 + conn_ret.raised.status_code
       ELSE conn_ret.code = 4500

(***************************************************************************)
(* etc/powlib/powlib.py: the proof of work, with hashlib.sha256 computed   *)
(* as SHA-256 (FIPS 180-4) on 32-bit words kept as <<high, low>> halves of *)
(* 16 bits                                                                 *)
(***************************************************************************)
\* the greatest difficulty the solver is run with, and the nonces
MaxDifficulty == 4
\* the greatest response validate is asked about
MaxSolution == 15

\* a nonce is the sequence of its hexadecimal digits
TestNonce ==
    <<13, 15, 14, 0, 4, 1, 11, 4, 15, 6, 0, 12, 11, 5, 4, 13, 0, 8, 2, 14, 5, 4, 2, 11, 1, 0, 9, 14, 3, 9, 2, 10>>
PowNonces ==
    {TestNonce,
     <<7, 7, 7, 7, 7, 7, 7, 7, 7, 7, 7, 7, 7, 7, 7, 7, 7, 7, 7, 7, 7, 7, 7, 7, 7, 7, 7, 7, 7, 7, 7, 7>>,
     <<11, 11, 11, 11, 11, 11, 11, 11, 11, 11, 11, 11, 11, 11, 11, 11, 11, 11, 11, 11, 11, 11, 11, 11, 11, 11, 11, 11, 11, 11, 11, 11>>}

\* tests/unit_test/etc/test_powlib.py: the difficulty and the solution of the
\* test nonce
TestDifficulty == 22
TestSolution == 9642966

RECURSIVE and16(_, _)
and16(a, b) ==
    IF a = 0 \/ b = 0 THEN 0
    ELSE (2 * and16(a \div 2, b \div 2)) + ((a % 2) * (b % 2))
xor16(a, b) == (a + b) - (2 * and16(a, b))

word_and(x, y) == <<and16(x[1], y[1]), and16(x[2], y[2])>>
word_xor(x, y) == <<xor16(x[1], y[1]), xor16(x[2], y[2])>>
word_not(x) == <<65535 - x[1], 65535 - x[2]>>
\* addition modulo 2^32
word_add(x, y) ==
    LET low == x[2] + y[2]
    IN <<(x[1] + y[1] + (low \div 65536)) % 65536, low % 65536>>

\* rotation and shift to the right by n bits
rotr_below_16(x, n) ==
    IF n = 0 THEN x
    ELSE <<(x[1] \div (2^n)) + ((x[2] % (2^n)) * (2^(16 - n))),
           (x[2] \div (2^n)) + ((x[1] % (2^n)) * (2^(16 - n)))>>
rotr(x, n) ==
    IF n >= 16 THEN rotr_below_16(<<x[2], x[1]>>, n - 16) ELSE rotr_below_16(x, n)
shr(x, n) ==
    IF n >= 16 THEN <<0, x[1] \div (2^(n - 16))>>
    ELSE <<x[1] \div (2^n), (x[2] \div (2^n)) + ((x[1] % (2^n)) * (2^(16 - n)))>>

sha256_K ==
    <<
     <<17034, 12184>>, <<28983, 17553>>, <<46528, 64463>>, <<59829, 56229>>,
     <<14678, 49755>>, <<23025, 4593>>, <<37439, 33444>>, <<43804, 24277>>,
     <<55303, 43672>>, <<4739, 23297>>, <<9265, 34238>>, <<21772, 32195>>,
     <<29374, 23924>>, <<32990, 45566>>, <<39900, 1703>>, <<49563, 61812>>,
     <<58523, 27073>>, <<61374, 18310>>, <<4033, 40390>>, <<9228, 41420>>,
     <<11753, 11375>>, <<19060, 33962>>, <<23728, 43484>>, <<30457, 35034>>,
     <<38974, 20818>>, <<43057, 50797>>, <<45059, 10184>>, <<48985, 32711>>,
     <<50912, 3059>>, <<54695, 37191>>, <<1738, 25425>>, <<5161, 10599>>,
     <<10167, 2693>>, <<11803, 8504>>, <<19756, 28156>>, <<21304, 3347>>,
     <<25866, 29524>>, <<30314, 2747>>, <<33218, 51502>>, <<37490, 11397>>,
     <<41663, 59553>>, <<43034, 26187>>, <<49739, 35696>>, <<51052, 20899>>,
     <<53650, 59417>>, <<54937, 1572>>, <<62478, 13701>>, <<4202, 41072>>,
     <<6564, 49430>>, <<7735, 27656>>, <<10056, 30540>>, <<13488, 48309>>,
     <<14620, 3251>>, <<20184, 43594>>, <<23452, 51791>>, <<26670, 28659>>,
     <<29839, 33518>>, <<30885, 25455>>, <<33992, 30740>>, <<36039, 520>>,
     <<37054, 65530>>, <<42064, 27883>>, <<48889, 41975>>, <<50801, 30962>>
    >>
sha256_H0 ==
    <<
     <<27145, 58983>>, <<47975, 44677>>, <<15470, 62322>>, <<42319, 62778>>,
     <<20750, 21119>>, <<39685, 26764>>, <<8067, 55723>>, <<23520, 52505>>
    >>

small_sigma0(x) == word_xor(word_xor(rotr(x, 7), rotr(x, 18)), shr(x, 3))
small_sigma1(x) == word_xor(word_xor(rotr(x, 17), rotr(x, 19)), shr(x, 10))
big_sigma0(x) == word_xor(word_xor(rotr(x, 2), rotr(x, 13)), rotr(x, 22))
big_sigma1(x) == word_xor(word_xor(rotr(x, 6), rotr(x, 11)), rotr(x, 25))
sha256_ch(x, y, z) == word_xor(word_and(x, y), word_and(word_not(x), z))
sha256_maj(x, y, z) ==
    word_xor(word_xor(word_and(x, y), word_and(x, z)), word_and(y, z))

\* the padded block of a message of at most 55 bytes, as 64 bytes
sha256_pad(data) ==
    [i \in 1..64 |->
        IF i <= Len(data) THEN data[i]
        ELSE IF i = Len(data) + 1 THEN 128
        ELSE IF i = 63 THEN (8 * Len(data)) \div 256
        ELSE IF i = 64 THEN (8 * Len(data)) % 256
        ELSE 0]

\* the 16 words of a block
sha256_words(block) ==
    [t \in 1..16 |-> <<(block[(4 * t) - 3] * 256) + block[(4 * t) - 2],
                       (block[(4 * t) - 1] * 256) + block[4 * t]>>]

\* the message schedule: 64 words
RECURSIVE sha256_schedule(_)
sha256_schedule(w) ==
    IF Len(w) = 64 THEN w
    ELSE LET t == Len(w) + 1
         IN sha256_schedule(
                Append(w, word_add(word_add(small_sigma1(w[t - 2]), w[t - 7]),
                                   word_add(small_sigma0(w[t - 15]), w[t - 16]))))

\* the rounds t..64 of the compression function on the working variables s
RECURSIVE sha256_rounds(_, _, _)
sha256_rounds(s, w, t) ==
    IF Len(s) # 8 \/ t > 64 THEN s
    ELSE LET t1 == word_add(word_add(word_add(s[8], big_sigma1(s[5])),
                                     word_add(sha256_ch(s[5], s[6], s[7]),
                                              sha256_K[t])),
                            w[t])
             t2 == word_add(big_sigma0(s[1]), sha256_maj(s[1], s[2], s[3]))
         IN sha256_rounds(<<word_add(t1, t2), s[1], s[2], s[3],
                            word_add(s[4], t1), s[5], s[6], s[7]>>, w, t + 1)

\* hashlib.sha256(data).digest() as 8 words, for data of at most 55 bytes
sha256(data) ==
    LET block == sha256_pad(data)
        w == sha256_schedule([t \in 1..16 |-> sha256_words(block)[t]])
        s == sha256_rounds(sha256_H0, w, 1)
    IN <<word_add(sha256_H0[1], s[1]), word_add(sha256_H0[2], s[2]),
         word_add(sha256_H0[3], s[3]), word_add(sha256_H0[4], s[4]),
         word_add(sha256_H0[5], s[5]), word_add(sha256_H0[6], s[6]),
         word_add(sha256_H0[7], s[7]), word_add(sha256_H0[8], s[8])>>

\* str(counter).encode(): the ASCII codes of the decimal digits
RECURSIVE decimal_digits(_)
decimal_digits(n) ==
    IF n < 10 THEN <<48 + n>>
    ELSE Append(decimal_digits(n \div 10), 48 + (n % 10))

\* nonce.encode(): the ASCII codes of the hexadecimal digits
hex_encode(nonce) ==
    [i \in 1..Len(nonce) |-> IF nonce[i] < 10 THEN 48 + nonce[i] ELSE 87 + nonce[i]]

\* f'{nonce}{response}'.encode()
pow_data(nonce, response) == hex_encode(nonce) \o decimal_digits(response)

\* the zeros bin(int(digest, 16))[2:].zfill(256) starts with
RECURSIVE bit_length(_)
bit_length(n) == IF n = 0 THEN 0 ELSE 1 + bit_length(n \div 2)
RECURSIVE leading_zero_bits(_)
leading_zero_bits(halves) ==
    IF halves = << >> THEN 0
    ELSE IF Head(halves) = 0 THEN 16 + leading_zero_bits(Tail(halves))
    ELSE 16 - bit_length(Head(halves))
digest_zero_bits(digest) ==
    leading_zero_bits(<<digest[1][1], digest[1][2], digest[2][1], digest[2][2],
                        digest[3][1], digest[3][2], digest[4][1], digest[4][2],
                        digest[5][1], digest[5][2], digest[6][1], digest[6][2],
                        digest[7][1], digest[7][2], digest[8][1], digest[8][2]>>)

\* a validate that asks for one zero bit more
PowDriver_validate_one_more(nonce, difficulty, response) ==
    digest_zero_bits(sha256(pow_data(nonce, response))) >= difficulty + 1

\* PowDriver.validate: bin_hash.startswith('0' * difficulty)
PowDriver_validate(nonce, difficulty, response) ==
    digest_zero_bits(sha256(pow_data(nonce, response))) >= difficulty

\* one turn of the loop of _python_solve: the counter is returned when its
\* hash starts with the zeros
solve_loop(nonce, difficulty, counter) ==
    IF difficulty < 1 \/ difficulty > 256 THEN Raised("ValueError")
    ELSE IF digest_zero_bits(sha256(pow_data(nonce, counter))) >= difficulty
    THEN Returned(counter)
    ELSE [counter |-> counter + 1]

\* one turn of the search of solve_pow of libpow: the same brute-force search
solve_pow_loop(nonce, difficulty, counter) ==
    IF digest_zero_bits(sha256(pow_data(nonce, counter))) >= difficulty
    THEN Returned(counter)
    ELSE [counter |-> counter + 1]

\* libpow.so is there, or ffi.dlopen raises OSError
PowLibs == {"libpow.so", "OSError"}

\* nothing of the gateway runs while a proof of work is solved
PowInit ==
    /\ cache_driver = "memory"
    /\ MemoryCache_routes = << >>
    /\ redis_route = << >>
    /\ cache_ret = [op |-> "none"]
    /\ BrokerIdle
    /\ DbIdle
    /\ ConnIdle
    /\ AdmIdle

\* solve(nonce, difficulty) starts: _c_solve hands the search to solve_pow of
\* libpow, and on OSError _python_solve runs; both start at counter 0
PowDriver_solve(nonce, difficulty, lib) ==
    /\ adm_ret.op # "solving"
    /\ adm_ret' = [op |-> "solving",
                   path |-> IF lib = "OSError" THEN "_python_solve" ELSE "_c_solve",
                   nonce |-> nonce, difficulty |-> difficulty, counter |-> 0]
    /\ UNCHANGED <<cacheVars, brokerVars, dbVars, connVars, msgVars, kmsVars,
                   MemoryCache_challenges, now, uuid_next, inflight>>

\* one turn of the search: the next counter is tried, or solve returns
PowDriver_solve_loop ==
    /\ adm_ret.op = "solving"
    /\ LET turn == IF adm_ret.path = "_c_solve"
                   THEN solve_pow_loop(adm_ret.nonce, adm_ret.difficulty,
                                       adm_ret.counter)
                   ELSE solve_loop(adm_ret.nonce, adm_ret.difficulty, adm_ret.counter)
       IN adm_ret' = IF IsRaised(turn) \/ "value" \in DOMAIN turn
                     THEN [op |-> "solve", path |-> adm_ret.path,
                           nonce |-> adm_ret.nonce,
                           difficulty |-> adm_ret.difficulty, ret |-> turn]
                     ELSE [adm_ret EXCEPT !.counter = turn.counter]
    /\ UNCHANGED <<cacheVars, brokerVars, dbVars, connVars, msgVars, kmsVars,
                   MemoryCache_challenges, now, uuid_next, inflight>>

\* validate(nonce, difficulty, response) for the challenge that was just
\* solved, with a response up to the solution
PowDriver_validate_solved(response) ==
    /\ adm_ret.op = "solve"
    /\ ~IsRaised(adm_ret.ret)
    /\ response <= adm_ret.ret.value
    /\ adm_ret' = [op |-> "validate", nonce |-> adm_ret.nonce,
                   difficulty |-> adm_ret.difficulty, response |-> response,
                   solved |-> adm_ret.ret.value,
                   ret |-> PowDriver_validate(adm_ret.nonce, adm_ret.difficulty,
                                              response)]
    /\ UNCHANGED <<cacheVars, brokerVars, dbVars, connVars, msgVars, kmsVars,
                   MemoryCache_challenges, now, uuid_next, inflight>>

\* test_validate: validate(nonce, 22, 9642966) for the nonce of the test, on a
\* new PowDriver
test_validate ==
    /\ adm_ret = NoRet
    /\ adm_ret' = [op |-> "test_validate", nonce |-> TestNonce,
                   difficulty |-> TestDifficulty, response |-> TestSolution,
                   ret |-> PowDriver_validate(TestNonce, TestDifficulty, TestSolution)]
    /\ UNCHANGED <<cacheVars, brokerVars, dbVars, connVars, msgVars, kmsVars,
                   MemoryCache_challenges, now, uuid_next, inflight>>

PowNext ==
    \/ \E nonce \in PowNonces, difficulty \in 1..MaxDifficulty, lib \in PowLibs :
          PowDriver_solve(nonce, difficulty, lib)
    \/ PowDriver_solve_loop
    \/ \E response \in 0..MaxSolution : PowDriver_validate_solved(response)
    \/ test_validate

SpecPow == PowInit /\ [][PowNext]_vars

MaxDispatched == 2

\* the classes NetworkMessage.factory builds for the internal message types
MessageClasses ==
    ("route.request" :> "RouteRequest") @@ ("route.response" :> "RouteResponse")
    @@ ("route.notification" :> "RouteNotification")
    @@ ("sync.node" :> "SyncNode") @@ ("sync.index" :> "SyncIndex")

\* NetworkMessage.factory(payload): an object of the class registered for
\* payload['messageType'], a CustomMessage for every other type; to_dict()
\* of the object gives the payload back
NetworkMessage_factory(payload) ==
    [class |-> IF payload.messageType \in DOMAIN MessageClasses
               THEN MessageClasses[payload.messageType]
               ELSE "CustomMessage",
     payload |-> payload]

\* isinstance(message, CustomMessage): false for every other class, and for
\* the dict of a request body
isinstance_CustomMessage(message) ==
    "class" \in DOMAIN message /\ message.class = "CustomMessage"

\* CustomMessage(metadata, message_type=message_config.response,
\* message_data=rsp).to_dict() of the response process_network_message builds
ResponseMessage_to_dict(message, message_type) ==
    NetworkMessage_to_dict(message_type, message.payload.metadata.messageId,
                           message.payload.metadata.networkId,
                           db_networks[message.payload.metadata.networkId].instanceId)
    @@ [messageData |-> "rsp"]

\* process_network_message(message): the one call of the broker it ends in,
\* or the exception it raises; raw_post succeeds when post_ok
process_network_message_does(message, post_ok) ==
    IF ~isinstance_CustomMessage(message) THEN [call |-> "nothing"]
    ELSE IF message.payload.messageType \notin DOMAIN Configurations
    THEN [call |-> "raises", raises |-> "MessageConfigurationNotFoundException"]
    ELSE LET message_config == Configurations[message.payload.messageType]
             response_message == ResponseMessage_to_dict(message,
                                                         message_config.response)
             signature == sign_payload(json_dumps(response_message),
                                       message.payload.metadata.networkId)
         IN IF message_config.preceding # NoneStr
            THEN [call |-> "add_to_response", message |-> message.payload]
            ELSE IF ~post_ok
            THEN [call |-> "raises", raises |-> "NetworkRequestFailedException"]
            ELSE IF message_config.response = NoneStr THEN [call |-> "raw_post"]
            ELSE IF IsRaised(signature)
            THEN [call |-> "raises", raises |-> signature.raises]
            ELSE [call |-> "publish_message",
                  node_id |-> message.payload.metadata.nodeId,
                  message |-> SignedEnvelope(response_message, signature.value)]

\* the transports a message arrives over, named by the handler that reads it
Transports == {"service_websocket", "_websocket_handler", "handle_message"}

\* the route service_websocket or handle_sse saved for the peer it serves
InboundRoute(p, transport_type) ==
    Route(LocalNetwork, p, "DIRECT", transport_type, FALSE, << >>)

\* whether the handler of the transport is running for peer p
TransportUp(transport, p) ==
    IF transport = "service_websocket"
    THEN get_route(p) = InboundRoute(p, "WEBSOCKET")
    ELSE IF transport = "_websocket_handler"
    THEN p \in DOMAIN est /\ est[p]["ws_open"] > 0
    ELSE TRUE

\* what the handler hands to process_network_message: the object the factory
\* built (the receive loops), or the request body (handle_message)
handed_message(transport, payload) ==
    IF transport = "handle_message" THEN payload
    ELSE NetworkMessage_factory(payload)

\* the message ids a peer answers: the one of the waiting call, or the first
AnswerIds ==
    IF inflight = {} THEN {uuid4(1)} ELSE {c.message_id : c \in inflight}

\* the payloads peer p sends
PeerPayloads(p) ==
    {RouteResponse_to_dict(id, LocalNetwork, p, "b", <<p>>) : id \in AnswerIds}
    \cup {NetworkMessage_to_dict(CustomResponse, "r1", LocalNetwork, p),
          RouteRequest_to_dict("r1", LocalNetwork, p, "b"),
          NetworkMessage_to_dict("route.notification", "r1", LocalNetwork, p)
              @@ [targetNode |-> "b"],
          NetworkMessage_to_dict("sync.node", "r1", LocalNetwork, p),
          NetworkMessage_to_dict("sync.index", "r1", LocalNetwork, p),
          NetworkMessage_to_dict(CustomRequest, "r1", LocalNetwork, p)}

\* one message of peer p, signed with signing_key, read by the handler of
\* the transport: it is authenticated and handed to process_network_message.
\* An exception ends _websocket_handler (the connection falls back to SSE);
\* service_websocket answers it with an error frame and exception_handler
\* of handle_message with an error status
dispatch_received(transport, p, signing_key, payload, post_ok) ==
    LET result == authenticate_network_message(payload.metadata.networkId,
                                               payload.metadata.nodeId, signing_key)
        does == IF result = "True"
                THEN process_network_message_does(
                         handed_message(transport, payload), post_ok)
                ELSE [call |-> "nothing"]
        raised == result \notin {"True", "False"} \/ does.call = "raises"
    IN /\ TransportUp(transport, p)
       /\ IF does.call = "add_to_response"
          THEN /\ Len(resp_added[payload.metadata.messageId]) < MaxDispatched
               /\ add_to_response(does.message)
               /\ resp_added' = [resp_added EXCEPT ![payload.metadata.messageId] =
                                    Append(@, does.message)]
          ELSE UNCHANGED <<MemoryMessageBroker_responses, redis_response, resp_added>>
       /\ IF does.call = "publish_message"
          THEN /\ Len(MessageQueue(does.node_id)) < MaxDispatched
               /\ publish_message(does.node_id, does.message)
          ELSE UNCHANGED <<MemoryMessageBroker_messages, redis_message>>
       /\ IF transport = "_websocket_handler" /\ raised
          THEN /\ save_route(Route(LocalNetwork, p, "DIRECT", "SSE", TRUE, << >>))
               /\ TaskMoves(p, "ws_open", "sse_connecting")
          ELSE UNCHANGED <<MemoryCache_routes, redis_route, est>>
       /\ conn_ret' = [op |-> "receive", transport |-> transport, node_id |-> p,
                       result |-> result, message |-> payload, post_ok |-> post_ok,
                       call |-> does.call]
       /\ UNCHANGED <<cache_driver, cache_ret, gen, gen_yielded, published, delivered,
                      next_serial, broker_ret, dbVars, admVars>>

\* event_stream of handle_sse for the peer node_id: one turn of its loop.
\* get_message gives the head of the peer's queue, sent as a data frame, or
\* None at its timeout, answered with a ping frame
event_stream(node_id) ==
    /\ get_route(node_id) = InboundRoute(node_id, "SSE")
    /\ IF MessageQueue(node_id) # << >>
       THEN /\ take_message(node_id)
            /\ delivered' = [delivered EXCEPT ![node_id] =
                                Append(@, Head(MessageQueue(node_id)))]
            /\ conn_ret' = [op |-> "event_stream", node_id |-> node_id,
                            frames |-> <<[data |-> json_dumps(
                                                      Head(MessageQueue(node_id)))]>>]
       ELSE /\ conn_ret' = [op |-> "event_stream", node_id |-> node_id,
                            frames |-> <<[event |-> "ping"]>>]
            /\ UNCHANGED <<MemoryMessageBroker_messages, redis_message, delivered>>
    /\ UNCHANGED <<cacheVars, MemoryMessageBroker_responses, redis_response, gen,
                   gen_yielded, published, resp_added, next_serial, broker_ret, dbVars,
                   est, admVars>>

\* how the transport of node a stands at the start
DispatchLinks == {"none", "websocket", "inbound_ws", "inbound_sse"}

\* network n1 with the approved nodes a and b and the unapproved node c; the
\* node documents carry publicKey or do not; node a is connected over one of
\* the transports or is not, node b is not connected
DispatchInit ==
    /\ cache_driver = "memory"
    /\ redis_route = << >>
    /\ cache_ret = [op |-> "none"]
    /\ MemoryMessageBroker_messages = << >>
    /\ MemoryMessageBroker_responses = << >>
    /\ redis_message = << >>
    /\ redis_response = << >>
    /\ gen = GenIdle
    /\ gen_yielded = << >>
    /\ published = [n \in Nodes |-> << >>]
    /\ delivered = [n \in Nodes |-> << >>]
    /\ resp_added = [m \in SendIds \cup {"r1"} |-> << >>]
    /\ next_serial = 1
    /\ broker_ret = [op |-> "none"]
    /\ conn_ret = NoRet
    /\ db_receivedRequests = << >>
    /\ db_sentRequests = << >>
    /\ kms_network_node_keys =
           (LocalNetwork :> [privateKey |-> "node_priv_" \o LocalNetwork,
                             publicKey |-> "node_pub_" \o LocalNetwork])
    /\ kms_network_management_keys = << >>
    /\ kms_driver = "vault"
    /\ MemoryCache_challenges = << >>
    /\ now = 0
    /\ uuid_next = 1
    /\ inflight = {}
    /\ adm_ret = NoRet
    /\ db_networks = (LocalNetwork :>
            Network_to_dict(Network(LocalNetwork, "net", "", <<"a", "b", Unapproved>>,
                                    TRUE, FALSE, "self", NoneStr)))
    /\ \E has_key \in BOOLEAN :
          db_nodes = ("a" :> NodeDocument("a", TRUE, has_key))
                     @@ ("b" :> NodeDocument("b", TRUE, has_key))
                     @@ (Unapproved :> NodeDocument(Unapproved, FALSE, has_key))
    /\ \E link \in DispatchLinks :
          /\ MemoryCache_routes =
                 IF link = "none" THEN << >>
                 ELSE IF link = "websocket"
                 THEN ("a" :> Route_to_dict(LinkRoute("a", link)))
                 ELSE ("a" :> Route_to_dict(
                                  InboundRoute("a", IF link = "inbound_ws"
                                                    THEN "WEBSOCKET" ELSE "SSE")))
          /\ est = [p \in Nodes |->
                       IF p = "a" /\ link = "websocket" THEN LinkTasks(link)
                       ELSE NoTasks]

DispatchNext ==
    \/ \E post_ok \in BOOLEAN : request_route("b", post_ok)
    \/ \E timed_out \in BOOLEAN : ResponseWake(timed_out)
    \/ \E transport \in Transports, p \in {"a", Unapproved},
          signing_key \in SigningKeys, post_ok \in BOOLEAN :
          \E payload \in PeerPayloads(p) :
             dispatch_received(transport, p, signing_key, payload, post_ok)
    \/ \E node_id \in {"a"} : event_stream(node_id)

SpecDispatch == DispatchInit /\ [][DispatchNext]_vars

\* C32: an authenticated RouteResponse received over a transport is handed
\* to the broker's response queue of its message id, where the
\* response_generator of the requester that broadcast the RouteRequest
\* finds it
C32_ReceivedMessagesReachHandlers ==
    [][(/\ conn_ret'.op = "receive"
        /\ conn_ret'.result = "True"
        /\ conn_ret'.message.messageType = "route.response")
       => MemoryMessageBroker_responses' =
              MemoryMessageBroker_add_to_response(MemoryMessageBroker_responses,
                                                  conn_ret'.message)]_vars

\* C33: a custom message POSTed to /service/message by an authenticated peer
\* has the effects it has when it arrives over the WebSocket (a response goes
\* to the response queue of its message id, a request is forwarded and its
\* response published for the sender), and an envelope waiting for a peer
\* with an inbound SSE route is emitted as one data frame while the route
\* stays
C33_SseLikeWebSocket ==
    [][/\ (/\ conn_ret'.op = "receive"
           /\ conn_ret'.transport = "handle_message"
           /\ conn_ret'.result = "True"
           /\ isinstance_CustomMessage(NetworkMessage_factory(conn_ret'.message)))
          => LET does == process_network_message_does(
                             NetworkMessage_factory(conn_ret'.message),
                             conn_ret'.post_ok)
             IN /\ does.call = "add_to_response"
                   => MemoryMessageBroker_responses' =
                          MemoryMessageBroker_add_to_response(
                              MemoryMessageBroker_responses, does.message)
                /\ does.call = "publish_message"
                   => MemoryMessageBroker_messages' =
                          MemoryMessageBroker_publish_message(
                              MemoryMessageBroker_messages, does.node_id,
                              does.message)
       /\ (conn_ret'.op = "event_stream"
           /\ MessageQueue(conn_ret'.node_id) # << >>)
          => /\ conn_ret'.frames =
                    <<[data |-> json_dumps(Head(MessageQueue(conn_ret'.node_id)))]>>
             /\ UNCHANGED MemoryCache_routes
      ]_vars


(***************************************************************************)
(* view/service.py: POST /service/responses as a request of some party     *)
(***************************************************************************)
\* C34: when POST /service/responses delivers a rejecting AuthRequestResponse
\* without network and node for a pending sent AuthRequest for network N
\* whose placeholder is stored, then after the step no pending-N row is left,
\* no network N, no node and no management key were created, and the sent
\* record is rejected.
C34_RejectionClearsPlaceholder ==
    [][\A id \in DOMAIN db_sentRequests, responder \in Nodes :
        LET N == db_sentRequests[id].request.metadata.networkId
        IN (/\ db_sentRequests[id].status = AuthMessageStatus.PENDING
            /\ db_sentRequests[id].request.messageType = MessageType.AUTH_REQUEST
            /\ PendingId(N) \in DOMAIN db_networks
            /\ submit_response(id, MessageType.AUTH_REQUEST_RESPONSE, FALSE,
                               responder, "none"))
           => /\ PendingId(N) \notin DOMAIN db_networks'
              /\ DOMAIN db_networks' = DOMAIN db_networks \ {PendingId(N)}
              /\ db_nodes' = db_nodes
              /\ kms_network_management_keys' = kms_network_management_keys
              /\ db_sentRequests'[id].status = AuthMessageStatus.REJECTED]_vars

\* who posts to /service/responses: the gateway behind the target URL the
\* request was sent to, or another party
ResponseOrigins == {TargetUrl, "http://other"}

\* POST /service/responses posted from origin, with or without a valid
\* Message-Signature header: the handler reads the body only
submit_response_from(origin, signed, request_id, response_type, approved, responder, network) ==
    submit_response(request_id, response_type, approved, responder, network)

\* the sending side, with the parties that answer named
ResponsesNext ==
    \/ \E network_id \in AdmNetworks, listed \in BOOLEAN :
          send_join_request(network_id, listed)
    \/ \E network_id \in AdmNetworks : send_join_invite(network_id)
    \/ \E c \in inflight : send_join_failed(c)
    \/ \E c \in inflight, join_response \in Replies :
          send_join_posted(c, join_response)
    \/ \E origin \in ResponseOrigins, signed \in BOOLEAN,
          request_id \in DOMAIN db_sentRequests \cup {"unknown"},
          response_type \in {MessageType.AUTH_REQUEST_RESPONSE,
                             MessageType.AUTH_INVITE_RESPONSE},
          approved \in BOOLEAN, responder \in Nodes,
          network \in {"match", "mismatch", "none"} :
          submit_response_from(origin, signed, request_id, response_type, approved,
                               responder, network)

SpecResponses == AdmInit /\ [][ResponsesNext]_vars

\* C35: a POST /service/responses that does not come from the target the
\* stored request was sent to, or that carries no valid signature, leaves the
\* networks, the nodes, the management keys and the admission records as
\* they were.
C35_OnlyTheTargetAnswers ==
    [][\A origin \in ResponseOrigins, signed \in BOOLEAN,
          id \in DOMAIN db_sentRequests,
          response_type \in {MessageType.AUTH_REQUEST_RESPONSE,
                             MessageType.AUTH_INVITE_RESPONSE},
          approved \in BOOLEAN, responder \in Nodes,
          network \in {"match", "mismatch", "none"} :
        (/\ origin # db_sentRequests[id].targetUrl \/ ~signed
         /\ submit_response_from(origin, signed, id, response_type, approved,
                                 responder, network))
        => UNCHANGED <<dbVars, msgVars, kms_network_management_keys>>]_vars

\* C39: when the POST of send_join_request fails, no pending-N row and no
\* sent record of the request are left.
C39_FailedJoinLeavesNoTrace ==
    [][\A c \in inflight :
        (c.call = "send_join_request" /\ send_join_failed(c))
        => /\ PendingId(c.network_id) \notin DOMAIN db_networks'
           /\ c.message_id \notin DOMAIN db_sentRequests']_vars


(***************************************************************************)
(* model/network_interface/route_interface.py: route requests among the    *)
(* gateways of a network.  This gateway answers the RouteRequests of its   *)
(* peers and asks them for routes; a peer runs the same code, so the chain  *)
(* it answers with is itself, followed by the chain of a RouteResponse it   *)
(* was sent for the target when its route to the target is a proxy route    *)
(***************************************************************************)
\* process_route_request: the route of the RouteResponse, for the cached
\* route to the target and the instance id of the answering gateway
route_response_route(connected_route, instance_id) ==
    IF connected_route = None THEN << >>
    ELSE IF connected_route.connectivity_type = "PROXY"
    THEN <<instance_id>> \o connected_route.proxy_nodes
    ELSE <<instance_id>>

\* process_route_request(route_request) for the RouteRequest r1 of the peer
\* requester for target_node: the RouteResponse is sent to the requester
process_route_request(requester, target_node, post_ok) ==
    LET instance_id == db_networks[LocalNetwork].instanceId
        route_response ==
            RouteResponse_to_dict("r1", LocalNetwork, instance_id, target_node,
                route_response_route(get_route(target_node), instance_id))
    IN /\ requester \in DOMAIN db_nodes
       /\ Len(MessageQueue(requester)) + Len(delivered[requester]) < MaxDispatched
       /\ MemoryMessageBroker_messages' =
              send_message_queues(MemoryMessageBroker_messages, route_response,
                                  requester, post_ok)
       /\ conn_ret' = [op |-> "process_route_request", node_id |-> requester,
                       target_node |-> target_node, message |-> route_response,
                       result |-> send_message_ends(route_response, requester,
                                                    post_ok),
                       posts |-> send_message_posts(route_response, requester,
                                                    post_ok)]
       /\ UNCHANGED <<MemoryMessageBroker_responses, gen, gen_yielded, uuid_next,
                      inflight, est, MemoryCache_routes, db_nodes, db_networks,
                      resp_added, outsideSend>>

\* send_loop of _websocket_handler for the peer p: the head of the peer's
\* queue is sent over the open WebSocket
websocket_send_loop(p) ==
    /\ est[p]["ws_open"] > 0
    /\ MessageQueue(p) # << >>
    /\ take_message(p)
    /\ delivered' = [delivered EXCEPT ![p] = Append(@, Head(MessageQueue(p)))]
    /\ conn_ret' = [op |-> "send_loop", node_id |-> p]
    /\ UNCHANGED <<cacheVars, MemoryMessageBroker_responses, redis_response, gen,
                   gen_yielded, published, resp_added, next_serial, broker_ret,
                   dbVars, est, admVars>>

\* the chains of the RouteResponses for target_node that were sent to peer
ChainsSentTo(peer, target_node) ==
    {delivered[peer][i].message.route :
        i \in {j \in DOMAIN delivered[peer] :
                  /\ delivered[peer][j].message.messageType = "route.response"
                  /\ delivered[peer][j].message.targetNode = target_node
                  /\ delivered[peer][j].message.route # << >>}}

\* what process_route_request of the peer answers for target_node: nothing
\* without a route, itself with a direct route, itself and the chain of its
\* proxy route, which request_route of the peer saved from a response
PeerRoutes(peer, target_node) ==
    {<< >>, <<peer>>}
    \cup {route_response_route(
              Route(LocalNetwork, target_node, "PROXY", "WEBSOCKET", TRUE, chain),
              peer) : chain \in ChainsSentTo(peer, target_node)}

RelayNext ==
    \/ \E requester \in {"a"}, target_node \in {"b"}, post_ok \in BOOLEAN :
          process_route_request(requester, target_node, post_ok)
    \/ \E p \in Nodes : websocket_send_loop(p)
    \/ \E p \in Nodes, from \in {"sse_connecting", "sse_open"} : EstSseFailed(p, from)
    \/ \E target_node \in {"b"}, post_ok \in BOOLEAN :
          request_route(target_node, post_ok)
    \/ \E c \in inflight, responder \in Nodes :
          \E route \in PeerRoutes(responder, c.node_id) :
             ResponseArrives(responder, route)
    \/ \E timed_out \in BOOLEAN : ResponseWake(timed_out)

SpecRelay == SendInit /\ [][RelayNext]_vars

\* the nodes of a chain
ChainNodes(chain) == {chain[i] : i \in 1..Len(chain)}

MaxPolls == 2

\* the handlers whose send loop reads the queue of a peer
Consumers == {"_websocket_handler", "service_websocket"}

\* AsyncQueue.__len__, as `if queue:` uses it
AsyncQueue_bool_always(queue) == TRUE
AsyncQueue_bool(queue) == Len(queue) > 0

\* AsyncQueue.pop_by_index(index): the item leaves the queue, or the call
\* waits on the condition while the queue is that short
AsyncQueue_pop_by_index(queue, index) ==
    IF index < Len(queue) THEN "returns" ELSE "condition.wait"

\* a get_message call that waits: in asyncio.sleep or BLPOP ("sleep") or in
\* pop_by_index ("condition.wait"); whether it holds the queue object, and
\* its counter of half seconds
Waiting(consumer, node_id, state, queue, counter) ==
    [call |-> "get_message", consumer |-> consumer, node_id |-> node_id,
     state |-> state, queue |-> queue, counter |-> counter]

\* MemoryMessageBroker._messages.get(node_id, None) is a queue
QueueBound(node_id) ==
    cache_driver = "redis" \/ node_id \in DOMAIN MemoryMessageBroker_messages

\* one turn of the loop of get_message for a call that holds the queue object
\* or does not: how it goes on
get_message_turn(node_id, queue, counter) ==
    IF counter >= DRIVER_TIMEOUT * 2 THEN "None"
    ELSE IF cache_driver = "redis"
    THEN IF MessageQueue(node_id) # << >> THEN "returns" ELSE "sleep"
    ELSE IF queue /\ AsyncQueue_bool(MessageQueue(node_id))
    THEN AsyncQueue_pop_by_index(MessageQueue(node_id), 0)
    ELSE "sleep"

\* the call of consumer goes on as `turn` says
get_message_goes_on(consumer, node_id, queue, counter, turn, rest) ==
    /\ IF turn = "returns"
       THEN /\ take_message(node_id)
            /\ delivered' = [delivered EXCEPT ![node_id] =
                                Append(@, Head(MessageQueue(node_id)))]
            /\ broker_ret' = [op |-> "get_message", consumer |-> consumer,
                              node_id |-> node_id, counter |-> counter,
                              ret |-> Head(MessageQueue(node_id))]
            /\ inflight' = rest
       ELSE IF turn = "None"
       THEN /\ broker_ret' = [op |-> "get_message", consumer |-> consumer,
                              node_id |-> node_id, counter |-> counter, ret |-> None]
            /\ inflight' = rest
            /\ UNCHANGED <<MemoryMessageBroker_messages, redis_message, delivered>>
       ELSE /\ broker_ret' = [op |-> "get_message", consumer |-> consumer,
                              node_id |-> node_id, counter |-> counter,
                              waits |-> turn]
            /\ inflight' = rest \cup {Waiting(consumer, node_id, turn, queue, counter)}
            /\ UNCHANGED <<MemoryMessageBroker_messages, redis_message, delivered>>
    /\ UNCHANGED <<cacheVars, MemoryMessageBroker_responses, redis_response, gen,
                   gen_yielded, published, resp_added, next_serial, dbVars, connVars,
                   msgVars, kmsVars, MemoryCache_challenges, now, uuid_next, adm_ret>>

\* the send loop of consumer calls get_message(node_id)
get_message_called(consumer, node_id) ==
    /\ \A c \in inflight : c.consumer # consumer
    /\ get_message_goes_on(consumer, node_id, QueueBound(node_id), 0,
                           get_message_turn(node_id, QueueBound(node_id), 0),
                           inflight)

\* the waiting call c wakes: from asyncio.sleep(0.5) after half a second (at
\* the last one of the timeout when `last`), from BLPOP with a value or at
\* the timeout, from the condition when the queue has the item
get_message_wakes(c, last) ==
    LET queue == c.queue \/ QueueBound(c.node_id)
        counter == IF last THEN DRIVER_TIMEOUT * 2 ELSE c.counter + 1
    IN /\ c \in inflight
       /\ ~last => c.counter < MaxPolls
       /\ IF c.state = "condition.wait"
          THEN /\ ~last
               /\ MessageQueue(c.node_id) # << >>
               /\ get_message_goes_on(c.consumer, c.node_id, TRUE, c.counter,
                                      "returns", inflight \ {c})
          ELSE get_message_goes_on(c.consumer, c.node_id, queue, counter,
                                   get_message_turn(c.node_id, queue, counter),
                                   inflight \ {c})

ConsumersNext ==
    \/ \E node_id \in {"a"} : BrokerPublish(node_id)
    \/ \E consumer \in Consumers, node_id \in {"a"} :
          get_message_called(consumer, node_id)
    \/ \E c \in inflight, last \in BOOLEAN : get_message_wakes(c, last)

SpecConsumers == BrokerInit /\ [][ConsumersNext]_vars

\* how often x occurs in the sequence
Count(seq, x) == Cardinality({i \in DOMAIN seq : seq[i] = x})

\* C37: with two send loops reading the queue of a peer, every envelope
\* published for the peer is either still queued or was returned by exactly
\* one get_message call, and nothing else was returned; a call returns None
\* only after DRIVER_TIMEOUT, and no call waits where only a publication
\* could wake it.
C37_TwoConsumers ==
    /\ \A n \in Nodes :
          \A i \in DOMAIN published[n] :
              Count(delivered[n], published[n][i])
                  + Count(MessageQueue(n), published[n][i]) = 1
    /\ \A n \in Nodes :
          Len(delivered[n]) + Len(MessageQueue(n)) = Len(published[n])
    /\ (broker_ret.op = "get_message" /\ "ret" \in DOMAIN broker_ret
            /\ broker_ret.ret = None)
          => broker_ret.counter = DRIVER_TIMEOUT * 2
    /\ \A c \in inflight :
          /\ c.state = "sleep"
          /\ c.counter < DRIVER_TIMEOUT * 2

\* both send loops wait for the peer's queue, an envelope has been returned
\* to one of them, and a call has ended at the timeout
C37_Witness ==
    /\ broker_ret.op = "get_message"
    /\ "ret" \in DOMAIN broker_ret
    /\ broker_ret.ret = None
    /\ Len(delivered["a"]) >= 2
    /\ \E c \in inflight : c.consumer # broker_ret.consumer


\* C38: the stored data index of a known node changes only in a step that
\* processes a SyncIndex message of that node; no SyncNode message, whoever
\* sent it, changes the data index of a node that was known.
C38_DataIndexFrame ==
    [][\A node_id \in DOMAIN db_nodes :
          (/\ node_id \in DOMAIN db_nodes'
           /\ data_index_of(db_nodes'[node_id]) # data_index_of(db_nodes[node_id]))
          => /\ conn_ret'.op = "process_data_index_sync_message"
             /\ conn_ret'.node_id = node_id]_vars


(***************************************************************************)
(* database/memory/node.py, database/memory/network.py: nodes are stored   *)
(* and read back, and the messages of the stored nodes are authenticated   *)
(***************************************************************************)
\* the nodes the callers of the repository store: a known or a new node, at
\* its URL or moved, with its public key
StoredNodes ==
    {Node(node_id, url, KeyOf(node_id), approved) :
        node_id \in {"a", NewNode},
        url \in {"http://" \o n : n \in {"a", NewNode}},
        approved \in BOOLEAN}

\* what the three operations that write a node leave alone
outsideNodes ==
    <<MemoryMessageBroker_messages, MemoryMessageBroker_responses, gen, gen_yielded,
      uuid_next, inflight, est, MemoryCache_routes, resp_added, outsideSend>>

\* db.nodes.save(node)
nodes_save(node) ==
    /\ IF node.node_id \in DOMAIN db_nodes
       THEN /\ conn_ret' = [op |-> "nodes.save", node |-> node,
                            result |-> "ValueError"]
            /\ UNCHANGED db_nodes
       ELSE /\ db_nodes' = MemoryNodeRepository_save(db_nodes, node)
            /\ conn_ret' = [op |-> "nodes.save", node |-> node, result |-> "stored"]
    /\ UNCHANGED <<db_networks, outsideNodes>>

\* db.networks.add_node(network_id, node)
networks_add_node(network_id, node) ==
    LET result == MemoryNetworkRepository_add_node_result(db_networks, db_nodes,
                                                          network_id, node)
    IN /\ db_nodes' = MemoryNetworkRepository_add_node_nodes(db_nodes, node)
       /\ db_networks' = MemoryNetworkRepository_add_node_networks(
                             db_networks, db_nodes, network_id, node)
       /\ conn_ret' = [op |-> "networks.add_node", node |-> node,
                       result |-> IF result = "ok" THEN "stored" ELSE result]
       /\ UNCHANGED outsideNodes

\* db.nodes.update(node)
nodes_update(node) ==
    /\ IF node.node_id \notin DOMAIN db_nodes
       THEN /\ conn_ret' = [op |-> "nodes.update", node |-> node,
                            result |-> "ValueError"]
            /\ UNCHANGED db_nodes
       ELSE /\ db_nodes' = MemoryNodeRepository_update(db_nodes, node)
            /\ conn_ret' = [op |-> "nodes.update", node |-> node,
                            result |-> "stored"]
    /\ UNCHANGED <<db_networks, outsideNodes>>

\* db.nodes.get(node_id)
nodes_get(node_id) ==
    /\ conn_ret' = [op |-> "nodes.get", node_id |-> node_id,
                    ret |-> IF node_id \in DOMAIN db_nodes
                            THEN Node_from_dict(db_nodes[node_id]) ELSE None]
    /\ UNCHANGED <<dbVars, outsideNodes>>

NodeStoreNext ==
    \/ \E node \in StoredNodes : nodes_save(node)
    \/ \E node \in StoredNodes : networks_add_node(LocalNetwork, node)
    \/ \E node \in StoredNodes : nodes_update(node)
    \/ \E node_id \in {"a", NewNode, Stranger} : nodes_get(node_id)
    \/ \E sender \in {"a", NewNode, Stranger},
          signing_key \in {KeyOf("a"), KeyOf(NewNode)} :
            handle_message(sender, signing_key)

SpecNodeStore == SendInit /\ [][NodeStoreNext]_vars

\* C40: a node that save, add_node or update stored is read back with the
\* public key it was stored with, and the signature of a message of an
\* approved member is verified (the check ends in true or false)
C40_StoredKeyReadBack ==
    [][/\ (/\ conn_ret'.op \in {"nodes.save", "networks.add_node", "nodes.update"}
           /\ conn_ret'.result = "stored")
          => Node_from_dict(db_nodes'[conn_ret'.node.node_id]).public_key
                 = conn_ret'.node.public_key
       /\ (/\ conn_ret'.op = "handle_message"
           /\ conn_ret'.node_id \in ApprovedNodes(LocalNetwork))
          => conn_ret'.result \in {"True", "False"}]_vars


====
